---- MODULE Spec2Model ----
(***************************************************************************)
(* Account synchronisation engine of the wallet (src/account.go): the      *)
(* notification handlers registered by an Account, the balance queries,    *)
(* and the process-wide coordination registries the handlers talk to.      *)
(***************************************************************************)
EXTENDS Integers, Sequences, FiniteSets, TLC

(***************************************************************************)
(* Bounds of the model.                                                    *)
(***************************************************************************)
\* Notifications the node pushes in one behaviour.
MaxNtfns == 2
\* Calls of RescanAddresses in one behaviour.
MaxRescans == 1
\* Length of the UtxoStore the balance specification starts from.
MaxUtxos == 2
\* Calls users make on the keys and the address index in one behaviour.
MaxCalls == 3
\* Goroutines that call into one account at the same time.
MaxThreads == 2

(***************************************************************************)
(* Program constants.                                                      *)
(***************************************************************************)
\* btcutil.SatoshiPerBitcoin, the divisor of CalculateBalance.
SatoshiPerBitcoin == 100000000
\* btcutil.BlockHeightUnknown.
BlockHeightUnknown == -1
\* The height of a transaction that is not in a block.
Unconfirmed == -1

(***************************************************************************)
(* Fixed-width integers.  A uint64 is kept as four 16-bit limbs, least      *)
(* significant first, so that a sum wraps at 2^64 as bal += u.Amt does; an  *)
(* int32 is kept as its value, and its arithmetic wraps at 2^31.            *)
(***************************************************************************)
\* The radix of a limb, 2^16.
Limb == 65536

\* The uint64 with value n, for 0 <= n < 2^31.
U64(n) == << n % Limb, n \div Limb, 0, 0 >>

\* 2^63 as a uint64.
Two63 == << 0, 0, 0, 32768 >>

RECURSIVE AddLimbs(_, _, _, _)
AddLimbs(a, b, i, carry) ==
    IF i > Len(a) THEN << >>
    ELSE LET sum == a[i] + b[i] + carry
         IN  << sum % Limb >> \o AddLimbs(a, b, i + 1, sum \div Limb)

\* a + b on uint64: the carry out of the top limb is lost.
Add64(a, b) == AddLimbs(a, b, 1, 0)

RECURSIVE LeqLimbs(_, _, _)
LeqLimbs(a, b, i) ==
    IF i = 0 THEN TRUE
    ELSE IF a[i] # b[i] THEN a[i] < b[i]
    ELSE LeqLimbs(a, b, i - 1)

\* a <= b on unsigned limbs of the same length.
Leq64(a, b) == LeqLimbs(a, b, Len(a))

\* The signed 16-bit value a 16-bit pattern stands for.
Signed16(x) == ((x + 32768) % Limb) - 32768

\* a - b on int32, wrapping.
Sub32(a, b) ==
    LET dl == (a % Limb) - (b % Limb)
        borrow == IF dl < 0 THEN 1 ELSE 0
        dh == (a \div Limb) - (b \div Limb) - borrow
    IN  Signed16(dh) * Limb + (dl + borrow * Limb)

\* a + b on int32, wrapping.
Add32(a, b) ==
    LET sl == (a % Limb) + (b % Limb)
        carry == IF sl >= Limb THEN 1 ELSE 0
        sh == (a \div Limb) + (b \div Limb) + carry
    IN  Signed16(sh) * Limb + (sl - carry * Limb)

(***************************************************************************)
(* Values the inputs are drawn from.                                       *)
(***************************************************************************)
Workers == {1, 2}
\* T1 is created by this wallet (the send-recording worker records it),
\* T2 by somebody else.
TxIDs == {"T1", "T2"}
SelfTxIDs == {"T1"}
OutIdxs == {0, 1}
\* The outputs the node reports: one of T1, one of T2.
NtfnOutpoints == {<< "T1", 0 >>, << "T2", 1 >>}
Blocks == {"B1", "B2"}
NoBlock == "none"
BlockHeightOf(b) == IF b = "B1" THEN 100 ELSE IF b = "B2" THEN 101 ELSE Unconfirmed
AddrHashes == {"H1", "H2"}

VARIABLES
    utxoS,          \* a.UtxoStore.s, the ordered collection of Utxos
    utxoDirty,      \* a.UtxoStore.dirty
    txS,            \* a.TxStore.s, the insertion-ordered history
    txDirty,        \* a.TxStore.dirty
    dirty,          \* a.dirty
    syncedWith,     \* the wallet's synced-with block stamp
    curBlock,       \* what GetCurBlock returns: [Height, err]
    replyHandlers,  \* replyHandlers.m: JSON id -> handler
    nextJSONID,     \* the next value NewJSONID hands out
    newBlockTxJSONID,    \* a.NewBlockTxJSONID
    spentOutpointJSONID, \* a.SpentOutpointJSONID
    trackPc,        \* position of the goroutine running Track
    rescans,        \* calls of RescanAddresses so far
    wk,             \* per notification worker: position and locals of its handler
    ntfns,          \* notifications dispatched so far
    errLog,         \* error lines logged so far, counted by what they are about
    sendSyncM,      \* SendTxHistSyncChans registry: txids with an entry
    sendSyncClosed, \* txids whose completion signal has fired
    sendPc,         \* position of the send-recording worker: txid -> pc
    gate,           \* NotifyBalanceSyncerChans: block -> holder of its slot
    notified,       \* NotifiedRecvTxChans: set of outpoints already surfaced
    newTxEv,        \* "new transaction" events emitted, per outpoint
    minedEv,        \* "mined" events emitted, per outpoint
    balEv,          \* NotifyWalletBalance events emitted
    balUnconfEv,    \* NotifyWalletBalanceUnconfirmed events emitted
    diskWrite,      \* outcome of the last writeDirtyToDisk
    spentSeen,      \* outpoints reported spent since they were last inserted
    firstSeen,      \* per outpoint, the height of the first notification accepted
    balResult,      \* result of the last balance query
    rb,             \* the call of Rollback: its position, arguments and results
    addressAccountMap,  \* addressAccountMap.m: address -> account name
    owners,         \* per address, the accounts it has ever been marked for
    walletKeys,     \* addresses whose keys the wallet of the account holds
    disk,           \* the keys of the wallet as last written to disk
    mtx,            \* a.mtx: free, or held by a call that returned without Unlock
    callRes,        \* the last call made by a user and what it returned
    lk,             \* per goroutine: the call it is in, its position, the locks it holds
    rq              \* the requests sent to the node and the replies no handler took

\* The state of the operations a caller invokes directly on the account.
keyVars == << addressAccountMap, owners, walletKeys, disk, mtx, callRes >>
opVars == << rb, keyVars, lk, rq >>

vars == << utxoS, utxoDirty, txS, txDirty, dirty, syncedWith, curBlock,
           replyHandlers, nextJSONID, newBlockTxJSONID, spentOutpointJSONID,
           trackPc, rescans, wk, ntfns, errLog,
           sendSyncM, sendSyncClosed, sendPc, gate, notified,
           newTxEv, minedEv, balEv, balUnconfEv, diskWrite, spentSeen, firstSeen,
           balResult, opVars >>

(***************************************************************************)
(* Balance queries.                                                        *)
(***************************************************************************)
\* The block stamps GetCurBlock can return.
KnownTip(h) == [Height |-> h, err |-> FALSE]
UnknownTip == [Height |-> BlockHeightUnknown, err |-> FALSE]
TipError == [Height |-> BlockHeightUnknown, err |-> TRUE]
\* An error that comes with a block stamp holding a height.
TipErrorAt(h) == [Height |-> h, err |-> TRUE]

\* GetCurBlock().
GetCurBlock == curBlock

\* The float64 result float64(sat) / float64(per), kept as its two operands.
\* The conversion and the division are monotone, so results with the same
\* divisor compare as their uint64 operands do.
Float(sat) == [sat |-> sat, per |-> SatoshiPerBitcoin]

\* The condition under which the loop adds a Utxo: confirms == 0 ||
\* (u.Height != -1 && int(bs.Height-u.Height+1) >= confirms).
MutCountsUtxo_OffByOne(u, confirms, bs) ==
    \/ confirms = 0
    \/ /\ u.Height # -1
       /\ Sub32(bs.Height, u.Height) >= confirms

CountsUtxo(u, confirms, bs) ==
    \/ confirms = 0
    \/ /\ u.Height # -1
       /\ Add32(Sub32(bs.Height, u.Height), 1) >= confirms

\* The loop of CalculateBalance over a.UtxoStore.s, bal being a uint64.
RECURSIVE SumBalance(_, _, _, _)
SumBalance(s, i, confirms, bs) ==
    IF i > Len(s) THEN U64(0)
    ELSE Add64(IF CountsUtxo(s[i], confirms, bs) THEN s[i].Amt ELSE U64(0),
               SumBalance(s, i + 1, confirms, bs))

\* The loop of CalculateAddressBalance.
RECURSIVE SumAddressBalance(_, _, _, _, _)
SumAddressBalance(s, i, pubkeyHash, confirms, bs) ==
    IF i > Len(s) THEN U64(0)
    ELSE Add64(IF CountsUtxo(s[i], confirms, bs) /\ s[i].AddrHash = pubkeyHash
               THEN s[i].Amt ELSE U64(0),
               SumAddressBalance(s, i + 1, pubkeyHash, confirms, bs))

\* bs, err := GetCurBlock(); if bs.Height == int32(btcutil.BlockHeightUnknown)
\* || err != nil { return 0. }
MutCalculateBalanceOf_IgnoresError(s, confirms, bs) ==
    IF bs.Height = BlockHeightUnknown
    THEN Float(U64(0))
    ELSE Float(SumBalance(s, 1, confirms, bs))

CalculateBalanceOf(s, confirms, bs) ==
    IF bs.Height = BlockHeightUnknown \/ bs.err
    THEN Float(U64(0))
    ELSE Float(SumBalance(s, 1, confirms, bs))

CalculateAddressBalanceOf(s, pubkeyHash, confirms, bs) ==
    IF bs.Height = BlockHeightUnknown \/ bs.err
    THEN Float(U64(0))
    ELSE Float(SumAddressBalance(s, 1, pubkeyHash, confirms, bs))

CalculateBalance(confirms) == CalculateBalanceOf(utxoS, confirms, GetCurBlock)
CalculateAddressBalance(pubkeyHash, confirms) ==
    CalculateAddressBalanceOf(utxoS, pubkeyHash, confirms, GetCurBlock)

(***************************************************************************)
(* Stores.                                                                 *)
(***************************************************************************)
RecvTx(txid, idx, height, blk, amt, rcv) ==
    [kind |-> "recv", TxID |-> txid, TxOutIdx |-> idx, BlockHeight |-> height,
     BlockHash |-> blk, Amount |-> amt, ReceiverHash |-> rcv]

SendTx(txid) ==
    [kind |-> "send", TxID |-> txid, TxOutIdx |-> 0, BlockHeight |-> Unconfirmed,
     BlockHash |-> NoBlock, Amount |-> 0, ReceiverHash |-> "-"]

Utxo(txid, idx, height, blk, amt, rcv) ==
    [Out |-> << txid, idx >>, Amt |-> amt, Height |-> height,
     AddrHash |-> rcv, BlockHash |-> blk]

\* tx.TxStore.InsertRecvTx and the append of a SendTx: append-only.
InsertTx(s, t) == Append(s, t)

\* tx.UtxoStore.Insert: adds or replaces the entry for u's outpoint.
Insert(s, u) ==
    IF \E i \in 1..Len(s) : s[i].Out = u.Out
    THEN [i \in 1..Len(s) |-> IF s[i].Out = u.Out THEN u ELSE s[i]]
    ELSE Append(s, u)

StoredOutpoints == {utxoS[i].Out : i \in 1..Len(utxoS)}

(***************************************************************************)
(* Notifications pushed by the node.                                       *)
(***************************************************************************)
\* The checks newBlockTxOutHandler makes on the payload, in the order it
\* makes them: a field is present with its type, or a string decodes.
NewTxChecks ==
    << "receiver", "receiver.decode", "height", "blockhash", "blockhash.parse",
       "blockindex", "blocktime", "txid", "txid.parse", "txoutindex", "amount",
       "pkscript" >>
AllNewTxChecks == {NewTxChecks[i] : i \in 1..Len(NewTxChecks)}

NtfnAmts == {U64(5)}
NtfnReceivers == {"H1"}

\* Payloads with every required field.  The optional spent flag is an input
\* of its own, drawn where the handler uses it (SpentFlags).
WellFormedNewTxMsgs ==
    {m \in [kind : {"map"}, good : {AllNewTxChecks}, txid : TxIDs, idx : OutIdxs,
            blk : Blocks \cup {NoBlock}, amt : NtfnAmts, rcv : NtfnReceivers] :
        << m.txid, m.idx >> \in NtfnOutpoints}

\* Payloads that fail exactly one check.
MalformedNewTxMsgs ==
    [kind : {"map"}, good : {AllNewTxChecks \ {c} : c \in AllNewTxChecks},
     txid : {"T2"}, idx : {1}, blk : {"B1"}, amt : NtfnAmts, rcv : NtfnReceivers]

\* A nil result, a result that is no map, and a reply carrying a node error
\* (whose result is nil).
OtherNewTxMsgs ==
    [kind : {"nil", "other", "err"}, good : {AllNewTxChecks}, txid : {"T2"},
     idx : {1}, blk : {"B1"}, amt : NtfnAmts, rcv : NtfnReceivers]

NewTxMsgs == WellFormedNewTxMsgs \cup MalformedNewTxMsgs \cup OtherNewTxMsgs

SpentChecks == << "txhash", "txhash.parse", "index" >>
AllSpentChecks == {SpentChecks[i] : i \in 1..Len(SpentChecks)}

SpentMsgs ==
    {m \in [kind : {"map"}, good : {AllSpentChecks}, txid : TxIDs, idx : OutIdxs] :
        << m.txid, m.idx >> \in NtfnOutpoints}
    \cup [kind : {"map"}, good : {AllSpentChecks \ {c} : c \in AllSpentChecks},
          txid : {"T2"}, idx : {1}]
    \cup [kind : {"nil", "other", "err"}, good : {AllSpentChecks},
          txid : {"T2"}, idx : {1}]

\* Number of the first check of the handler the payload fails, 0 if none.
RECURSIVE FirstFailure(_, _, _)
FirstFailure(checks, good, i) ==
    IF i > Len(checks) THEN 0
    ELSE IF checks[i] \notin good THEN i
    ELSE FirstFailure(checks, good, i + 1)

\* Whether newBlockTxOutHandler gets past its validation (lines 707-789).
MutNewTxAccepted_NoPkscriptCheck(m) ==
    /\ m.kind = "map"
    /\ FirstFailure(SubSeq(NewTxChecks, 1, Len(NewTxChecks) - 1), m.good, 1) = 0

NewTxAccepted(m) ==
    /\ m.kind = "map"
    /\ FirstFailure(NewTxChecks, m.good, 1) = 0

\* The optional spent field of a payload: absent, or a bool.
SpentFlags == {"absent", "false", "true"}

\* spent := false; if tspent, ok := v["spent"].(bool); ok { spent = tspent }.
SpentFlag(f) == f = "true"

\* The error log gains n lines of a class: "field" for a field of a
\* new-transaction payload, "reply" for what else newBlockTxOutHandler logs,
\* "spent" for spentUtxoHandler, "disk" for a failed write.
Logged(log, class, n) == [log EXCEPT ![class] = @ + n]

\* Lines newBlockTxOutHandler logs about a field of the payload: one for the
\* check that fails.
NewTxFieldLines(m) ==
    IF m.kind = "map" /\ FirstFailure(NewTxChecks, m.good, 1) # 0 THEN 1 ELSE 0

\* Its other lines: one for a node error, one for a result that is neither
\* nil nor a map.
NewTxReplyLines(m) == IF m.kind \in {"err", "other"} THEN 1 ELSE 0

\* Whether spentUtxoHandler finds the transaction hash and the index.
SpentAccepted(m) ==
    /\ m.kind = "map"
    /\ FirstFailure(SpentChecks, m.good, 1) = 0

\* Error lines spentUtxoHandler logs: none for a result that is no map.
SpentErrLines(m) ==
    IF m.kind \in {"nil", "other"} \/ SpentAccepted(m) THEN 0 ELSE 1

(***************************************************************************)
(* The notification router.                                                *)
(***************************************************************************)
JSONIDs == 1..(2 + MaxRescans)

\* The router keeps a handler that returns false and removes one that
\* returns true.
Route(id, ret) ==
    IF ret THEN [replyHandlers EXCEPT ![id] = "none"] ELSE replyHandlers

\* Return value of spentUtxoHandler: false on every path.
MutSpentUtxoHandlerRet_TrueOnError(m) == m.kind = "err"

SpentUtxoHandlerRet(m) == FALSE

\* Return value of newBlockTxOutHandler: false on every path.
NewBlockTxOutHandlerRet(m) == FALSE

(***************************************************************************)
(* Notification workers.                                                   *)
(***************************************************************************)
IdleWk ==
    [pc |-> "idle", id |-> 0, h |-> "none", txid |-> "-", idx |-> 0,
     height |-> Unconfirmed, blk |-> NoBlock, amt |-> U64(0), rcv |-> "-",
     wg |-> NoBlock]

\* The handler going on without a slot whatever the height.
MutStartWk_NoGate(id, h, m) ==
    [pc |-> "syncAccess",
     id |-> id, h |-> h, txid |-> m.txid, idx |-> m.idx,
     height |-> BlockHeightOf(m.blk), blk |-> m.blk, amt |-> m.amt,
     rcv |-> m.rcv, wg |-> NoBlock]

\* The locals of newBlockTxOutHandler after its validation; a confirmed
\* transaction (int32(height) != -1) goes through the per-block gate first.
StartWk(id, h, m) ==
    [pc |-> IF BlockHeightOf(m.blk) # -1 THEN "gate" ELSE "syncAccess",
     id |-> id, h |-> h, txid |-> m.txid, idx |-> m.idx,
     height |-> BlockHeightOf(m.blk), blk |-> m.blk, amt |-> m.amt,
     rcv |-> m.rcv, wg |-> NoBlock]

OutpointOf(l) == << l.txid, l.idx >>

\* Idle workers are interchangeable: a notification goes to the first one.
FreeWorker(w) ==
    /\ wk[w].pc = "idle"
    /\ \A v \in Workers : wk[v].pc = "idle" => w <= v

(***************************************************************************)
(* Initial state: an account just opened, nothing tracked yet.             *)
(***************************************************************************)
MainTips == {KnownTip(101)}

\* The account, its network, and what the address index is asked about.
AccountName == "acct1"
AccountNet == "main"
Accounts == {"acct1", "acct2"}
Addresses == {"addr1", "addr2"}
Nets == {"main", "test"}
\* What btcutil.DecodePrivateKey makes of a WIF string: an error, or a key
\* (named by its payment address) of a network.
WIFs == {[ok |-> FALSE, net |-> "main", addr |-> "addr1"]}
            \cup [ok : {TRUE}, net : Nets, addr : Addresses]

\* No call has been made.
NoCall ==
    [n |-> 0, fn |-> "none", wif |-> [ok |-> FALSE, net |-> "main", addr |-> "addr1"],
     rescan |-> FALSE, addr |-> "", account |-> "", err |-> "nil",
     written |-> "none"]

\* No call of Rollback has been made.
NoRollback ==
    [pc |-> "idle", height |-> 0, hash |-> NoBlock, changedU |-> FALSE,
     changedT |-> FALSE, utxo0 |-> << >>, tx0 |-> << >>, redoneU |-> {},
     redoneT |-> {}]

\* No request sent to the node yet, no call of RescanAddresses under way.
NoRequests == [sent |-> {}, dropped |-> {}, rescanPc |-> "idle", rescanN |-> 0]

\* The goroutines, and a goroutine that is in no call.
Threads == 1..MaxThreads
NoPath == [fn |-> "none", ops |-> << >>, pc |-> 0, held |-> {}]

\* Everything but the stores and their dirty flags.
InitRest(tips) ==
    /\ rb = NoRollback
    /\ addressAccountMap = [a \in Addresses |-> "none"]
    /\ owners = [a \in Addresses |-> {}]
    /\ walletKeys = {}
    /\ disk = {}
    /\ mtx = "free"
    /\ callRes = NoCall
    /\ lk = [t \in Threads |-> NoPath]
    /\ rq = NoRequests
    /\ dirty = FALSE
    /\ syncedWith = 99
    /\ curBlock \in tips
    /\ replyHandlers = [id \in JSONIDs |-> "none"]
    /\ nextJSONID = 1
    /\ newBlockTxJSONID = 0
    /\ spentOutpointJSONID = 0
    /\ trackPc = "start"
    /\ rescans = 0
    /\ wk = [w \in Workers |-> IdleWk]
    /\ ntfns = 0
    /\ errLog = [field |-> 0, reply |-> 0, spent |-> 0, disk |-> 0]
    /\ sendSyncM = {}
    /\ sendSyncClosed = {}
    /\ sendPc = [t \in SelfTxIDs |-> "idle"]
    /\ gate = [b \in Blocks |-> 0]
    /\ notified = {}
    /\ newTxEv = [o \in NtfnOutpoints |-> 0]
    /\ minedEv = [o \in NtfnOutpoints |-> 0]
    /\ balEv = 0
    /\ balUnconfEv = 0
    /\ diskWrite = "none"
    /\ spentSeen = {}
    /\ firstSeen = [o \in NtfnOutpoints |-> "none"]
    /\ balResult = [fn |-> "none", confirms |-> 0, addr |-> "-", value |-> Float(U64(0))]

InitWith(tips, stores) ==
    /\ utxoS \in stores
    /\ utxoDirty = FALSE
    /\ txS = << >>
    /\ txDirty = FALSE
    /\ InitRest(tips)

Init == InitWith(MainTips, {<< >>})

storeVars == << utxoS, utxoDirty, txS, txDirty >>
acctVars == << dirty, syncedWith, diskWrite >>
routerVars == << replyHandlers, nextJSONID, newBlockTxJSONID,
                 spentOutpointJSONID, trackPc, rescans >>
syncVars == << sendSyncM, sendSyncClosed, gate, notified >>
eventVars == << newTxEv, minedEv, balEv, balUnconfEv >>

(***************************************************************************)
(* Track and RescanAddresses: registration of the handlers.                *)
(***************************************************************************)
\* Track, first half: n := <-NewJSONID; a.NewBlockTxJSONID = n;
\* replyHandlers.m[n] = a.newBlockTxOutHandler; the requests follow.
TrackNewTx ==
    /\ trackPc = "start"
    /\ nextJSONID \in JSONIDs
    /\ newBlockTxJSONID' = nextJSONID
    /\ replyHandlers' = [replyHandlers EXCEPT ![nextJSONID] = "newtx"]
    /\ nextJSONID' = nextJSONID + 1
    /\ trackPc' = "spent"
    /\ UNCHANGED << storeVars, acctVars, curBlock, spentOutpointJSONID, rescans,
                    wk, ntfns, errLog, syncVars, sendPc, eventVars, spentSeen,
                    firstSeen, balResult, opVars >>

\* Track, second half: the same for a.spentUtxoHandler.
TrackSpent ==
    /\ trackPc = "spent"
    /\ nextJSONID \in JSONIDs
    /\ spentOutpointJSONID' = nextJSONID
    /\ replyHandlers' = [replyHandlers EXCEPT ![nextJSONID] = "spent"]
    /\ nextJSONID' = nextJSONID + 1
    /\ trackPc' = "done"
    /\ UNCHANGED << storeVars, acctVars, curBlock, newBlockTxJSONID, rescans,
                    wk, ntfns, errLog, syncVars, sendPc, eventVars, spentSeen,
                    firstSeen, balResult, opVars >>

\* RescanAddresses: a fresh id; when the command cannot be built nothing is
\* registered, otherwise the rescan closure is registered and the request sent.
RescanRegisters(cmdOk) ==
    /\ rescans < MaxRescans
    /\ nextJSONID \in JSONIDs
    /\ rescans' = rescans + 1
    /\ nextJSONID' = nextJSONID + 1
    /\ replyHandlers' =
           IF cmdOk THEN [replyHandlers EXCEPT ![nextJSONID] = "rescan"]
           ELSE replyHandlers

RescanAddresses(cmdOk) ==
    /\ RescanRegisters(cmdOk)
    /\ UNCHANGED << storeVars, acctVars, curBlock, newBlockTxJSONID,
                    spentOutpointJSONID, trackPc, wk, ntfns, errLog, syncVars,
                    sendPc, eventVars, spentSeen, firstSeen,
                    balResult, opVars >>

(***************************************************************************)
(* The send-recording worker of a transaction this wallet creates.         *)
(***************************************************************************)
\* An entry is published for the txid and the transaction goes to the node.
SendPublish(t) ==
    /\ sendPc[t] = "idle"
    /\ sendSyncM' = sendSyncM \cup {t}
    /\ sendPc' = [sendPc EXCEPT ![t] = "published"]
    /\ UNCHANGED << storeVars, acctVars, curBlock, routerVars, wk, ntfns, errLog,
                    sendSyncClosed, gate, notified, eventVars, spentSeen,
                    firstSeen, balResult, opVars >>

\* The sent history is written to the TxStore.
SendRecord(t) ==
    /\ sendPc[t] = "published"
    /\ txS' = InsertTx(txS, SendTx(t))
    /\ txDirty' = TRUE
    /\ sendPc' = [sendPc EXCEPT ![t] = "recorded"]
    /\ UNCHANGED << utxoS, utxoDirty, acctVars, curBlock, routerVars, wk, ntfns,
                    errLog, syncVars, eventVars, spentSeen, firstSeen,
                    balResult, opVars >>

\* The completion signal of the entry fires.
SendDone(t) ==
    /\ sendPc[t] = "recorded"
    /\ sendSyncClosed' =
           IF t \in sendSyncM THEN sendSyncClosed \cup {t} ELSE sendSyncClosed
    /\ sendPc' = [sendPc EXCEPT ![t] = "done"]
    /\ UNCHANGED << storeVars, acctVars, curBlock, routerVars, wk, ntfns, errLog,
                    sendSyncM, gate, notified, eventVars, spentSeen, firstSeen,
                    balResult, opVars >>

(***************************************************************************)
(* Dispatch of a notification to the handler registered for its id.        *)
(***************************************************************************)
\* The node reports a transaction of this wallet only once it has it.
NodeKnows(m) == m.txid \in SelfTxIDs => sendPc[m.txid] # "idle"

\* spentUtxoHandler: validates the payload and returns; nothing is removed
\* from the UtxoStore.
DispatchSpent(w, id, m) ==
    /\ FreeWorker(w)
    /\ ntfns < MaxNtfns
    /\ replyHandlers[id] = "spent"
    /\ ntfns' = ntfns + 1
    /\ errLog' = Logged(errLog, "spent", SpentErrLines(m))
    /\ spentSeen' =
           IF SpentAccepted(m) /\ << m.txid, m.idx >> \in StoredOutpoints
           THEN spentSeen \cup {<< m.txid, m.idx >>}
           ELSE spentSeen
    /\ replyHandlers' = Route(id, SpentUtxoHandlerRet(m))
    /\ UNCHANGED << storeVars, acctVars, curBlock, nextJSONID, newBlockTxJSONID,
                    spentOutpointJSONID, trackPc, rescans, wk, syncVars, sendPc,
                    eventVars, firstSeen, balResult, opVars >>

\* The ghost record of the first notification accepted for an outpoint.
NoteFirst(m) ==
    IF firstSeen[<< m.txid, m.idx >>] = "none"
    THEN [firstSeen EXCEPT ![<< m.txid, m.idx >>] =
              IF BlockHeightOf(m.blk) = -1 THEN "unconfirmed" ELSE "confirmed"]
    ELSE firstSeen

\* newBlockTxOutHandler up to the end of its validation: a reply the
\* validation rejects makes the handler return at once.
DispatchNewTx(w, id, m) ==
    /\ FreeWorker(w)
    /\ ntfns < MaxNtfns
    /\ replyHandlers[id] = "newtx"
    /\ NodeKnows(m)
    /\ ntfns' = ntfns + 1
    /\ errLog' = Logged(Logged(errLog, "field", NewTxFieldLines(m)),
                        "reply", NewTxReplyLines(m))
    /\ IF NewTxAccepted(m)
       THEN /\ wk' = [wk EXCEPT ![w] = StartWk(id, "newtx", m)]
            /\ firstSeen' = NoteFirst(m)
            /\ UNCHANGED replyHandlers
       ELSE /\ replyHandlers' = Route(id, NewBlockTxOutHandlerRet(m))
            /\ UNCHANGED << wk, firstSeen >>
    /\ UNCHANGED << storeVars, acctVars, curBlock, nextJSONID, newBlockTxJSONID,
                    spentOutpointJSONID, trackPc, rescans, syncVars, sendPc,
                    eventVars, spentSeen, balResult, opVars >>

\* Whether the rescan closure sees result != nil; a node error comes with a
\* nil result.
ResultNonNil(m) == m.kind \in {"map", "other"}

\* Return value of the rescan closure: false after a result, true after nil.
RescanHandlerRet(nonnil) == ~nonnil

\* Whether the closure recomputes and notifies the balances: if result != nil.
MutRescanNotifies_OnTerminal(nonnil) == ~nonnil

RescanNotifies(nonnil) == nonnil

\* Whether the closure records the sync point: result == nil and
\* GetCurBlock returned no error.
RescanSyncs(nonnil) == ~nonnil /\ ~GetCurBlock.err

\* The rescan closure: it hands every reply to newBlockTxOutHandler first.
\* A reply the handler rejects lets the closure finish at once: after a
\* result it notifies the balances and stays; after nil it sets the synced-with
\* block stamp, marks the account dirty, writes it (a failure is logged) and
\* is removed.
DispatchRescan(w, id, m, written) ==
    /\ FreeWorker(w)
    /\ ntfns < MaxNtfns
    /\ replyHandlers[id] = "rescan"
    /\ NodeKnows(m)
    /\ ntfns' = ntfns + 1
    /\ IF NewTxAccepted(m)
       THEN /\ wk' = [wk EXCEPT ![w] = StartWk(id, "rescan", m)]
            /\ firstSeen' = NoteFirst(m)
            /\ written
            /\ UNCHANGED << replyHandlers, acctVars, balEv, balUnconfEv, errLog >>
       ELSE /\ replyHandlers' = Route(id, RescanHandlerRet(ResultNonNil(m)))
            /\ balEv' = IF RescanNotifies(ResultNonNil(m)) THEN balEv + 1 ELSE balEv
            /\ balUnconfEv' = IF RescanNotifies(ResultNonNil(m))
                              THEN balUnconfEv + 1 ELSE balUnconfEv
            /\ IF RescanSyncs(ResultNonNil(m))
               THEN /\ syncedWith' = GetCurBlock.Height
                    /\ dirty' = TRUE
                    /\ diskWrite' = IF written THEN "ok" ELSE "failed"
                    /\ errLog' = Logged(Logged(Logged(errLog,
                                             "field", NewTxFieldLines(m)),
                                             "reply", NewTxReplyLines(m)),
                                         "disk", IF written THEN 0 ELSE 1)
               ELSE /\ written
                    /\ errLog' = Logged(Logged(errLog,
                                             "field", NewTxFieldLines(m)),
                                         "reply", NewTxReplyLines(m))
                    /\ UNCHANGED acctVars
            /\ UNCHANGED << wk, firstSeen >>
    /\ UNCHANGED << storeVars, curBlock, nextJSONID, newBlockTxJSONID,
                    spentOutpointJSONID, trackPc, rescans, syncVars, sendPc,
                    newTxEv, minedEv, spentSeen, balResult, opVars >>

(***************************************************************************)
(* newBlockTxOutHandler after its validation, one step per interaction     *)
(* with shared state.                                                      *)
(***************************************************************************)
Step(w, l) == wk' = [wk EXCEPT ![w] = l]

\* A handler with no slot to give back, called by the router itself, returns
\* false with its last step; otherwise the return is a step of its own.
Finished(l) ==
    IF l.wg = NoBlock /\ l.h = "newtx" THEN IdleWk ELSE [l EXCEPT !.pc = "ret"]

\* Where the handler goes after the notified-outpoint bookkeeping: if !spent
\* it inserts the Utxo.
MutAfterNotify_IgnoresSpent(l, f) == [l EXCEPT !.pc = "insertUtxo"]

AfterNotify(l, f) ==
    IF ~SpentFlag(f) THEN [l EXCEPT !.pc = "insertUtxo"] ELSE Finished(l)

\* NotifyBalanceSyncerChans.add <- worker; wg := <-worker.wg: the slot of
\* the block is handed out when nobody holds it.
GateAcquire(w) ==
    /\ wk[w].pc = "gate"
    /\ gate[wk[w].blk] = 0
    /\ gate' = [gate EXCEPT ![wk[w].blk] = w]
    /\ Step(w, [wk[w] EXCEPT !.pc = "syncAccess", !.wg = wk[w].blk])
    /\ UNCHANGED << storeVars, acctVars, curBlock, routerVars, ntfns, errLog,
                    sendSyncM, sendSyncClosed, notified, sendPc, eventVars,
                    spentSeen, firstSeen, balResult, opVars >>

\* if resp.ok { <-resp.c; ... }: the handler waits only for an entry it found.
MutAfterSyncAccess_NeverWaits(ok) == "insertRecv"

MutAfterSyncAccess_AlwaysWaits(ok) == "syncWait"

AfterSyncAccess(ok) == IF ok THEN "syncWait" ELSE "insertRecv"

\* SendTxHistSyncChans.access <- req; resp := <-req.response.
SyncAccess(w) ==
    /\ wk[w].pc = "syncAccess"
    /\ Step(w, [wk[w] EXCEPT !.pc = AfterSyncAccess(wk[w].txid \in sendSyncM)])
    /\ UNCHANGED << storeVars, acctVars, curBlock, routerVars, ntfns, errLog,
                    syncVars, sendPc, eventVars, spentSeen, firstSeen,
                    balResult, opVars >>

\* <-resp.c: returns once the completion signal has fired.
SyncWait(w) ==
    /\ wk[w].pc = "syncWait"
    /\ wk[w].txid \in sendSyncClosed
    /\ Step(w, [wk[w] EXCEPT !.pc = "syncRemove"])
    /\ UNCHANGED << storeVars, acctVars, curBlock, routerVars, ntfns, errLog,
                    syncVars, sendPc, eventVars, spentSeen, firstSeen,
                    balResult, opVars >>

\* The registry after SendTxHistSyncChans.remove <- *txID.
MutSyncRemoved_KeepsEntry(m, txid) == m

SyncRemoved(m, txid) == m \ {txid}

\* SendTxHistSyncChans.remove <- *txID.
SyncRemove(w) ==
    /\ wk[w].pc = "syncRemove"
    /\ sendSyncM' = SyncRemoved(sendSyncM, wk[w].txid)
    /\ Step(w, [wk[w] EXCEPT !.pc = "insertRecv"])
    /\ UNCHANGED << storeVars, acctVars, curBlock, routerVars, ntfns, errLog,
                    sendSyncClosed, gate, notified, sendPc, eventVars, spentSeen,
                    firstSeen, balResult, opVars >>

\* a.TxStore.Lock(); InsertRecvTx(t); dirty = true; Unlock().
InsertRecv(w) ==
    /\ wk[w].pc = "insertRecv"
    /\ txS' = InsertTx(txS, RecvTx(wk[w].txid, wk[w].idx, wk[w].height,
                                   wk[w].blk, wk[w].amt, wk[w].rcv))
    /\ txDirty' = TRUE
    /\ Step(w, [wk[w] EXCEPT !.pc = "notifAccess"])
    /\ UNCHANGED << utxoS, utxoDirty, acctVars, curBlock, routerVars, ntfns,
                    errLog, syncVars, sendPc, eventVars, spentSeen, firstSeen,
                    balResult, opVars >>

\* NotifiedRecvTxChans.access <- req; <-req.response.
NotifAccess(w) ==
    /\ wk[w].pc = "notifAccess"
    /\ Step(w, [wk[w] EXCEPT !.pc = IF OutpointOf(wk[w]) \in notified
                                    THEN "notifMined" ELSE "notifAdd"])
    /\ UNCHANGED << storeVars, acctVars, curBlock, routerVars, ntfns, errLog,
                    syncVars, sendPc, eventVars, spentSeen, firstSeen,
                    balResult, opVars >>

\* NotifyMinedTx <- t; NotifiedRecvTxChans.remove <- *recvTxOP.
NotifMined(w, f) ==
    /\ wk[w].pc = "notifMined"
    /\ minedEv' = [minedEv EXCEPT ![OutpointOf(wk[w])] = @ + 1]
    /\ notified' = notified \ {OutpointOf(wk[w])}
    /\ Step(w, AfterNotify(wk[w], f))
    /\ UNCHANGED << storeVars, acctVars, curBlock, routerVars, ntfns, errLog,
                    sendSyncM, sendSyncClosed, gate, sendPc, newTxEv, balEv,
                    balUnconfEv, spentSeen, firstSeen, balResult, opVars >>

\* NotifiedRecvTxChans.add <- *recvTxOP; NotifyNewTxDetails(...).
NotifAdd(w, f) ==
    /\ wk[w].pc = "notifAdd"
    /\ notified' = notified \cup {OutpointOf(wk[w])}
    /\ newTxEv' = [newTxEv EXCEPT ![OutpointOf(wk[w])] = @ + 1]
    /\ Step(w, AfterNotify(wk[w], f))
    /\ UNCHANGED << storeVars, acctVars, curBlock, routerVars, ntfns, errLog,
                    sendSyncM, sendSyncClosed, gate, sendPc, minedEv, balEv,
                    balUnconfEv, spentSeen, firstSeen, balResult, opVars >>

\* if !spent: a.UtxoStore.Lock(); Insert(u); dirty = true; Unlock(); and for
\* a mempool transaction the unconfirmed balance is notified.
InsertUtxo(w) ==
    /\ wk[w].pc = "insertUtxo"
    /\ utxoS' = Insert(utxoS, Utxo(wk[w].txid, wk[w].idx, wk[w].height,
                                   wk[w].blk, wk[w].amt, wk[w].rcv))
    /\ utxoDirty' = TRUE
    /\ balUnconfEv' = IF wk[w].height = -1 THEN balUnconfEv + 1 ELSE balUnconfEv
    /\ spentSeen' = spentSeen \ {OutpointOf(wk[w])}
    /\ Step(w, Finished(wk[w]))
    /\ UNCHANGED << txS, txDirty, acctVars, curBlock, routerVars, ntfns, errLog,
                    syncVars, sendPc, newTxEv, minedEv, balEv, firstSeen,
                    balResult, opVars >>

\* The slot the handler gives back when it returns: wg.Done() is deferred.
MutReleasedAtReturn_Never(l) == NoBlock

ReleasedAtReturn(l) == l.wg

\* return false, after the deferred wg.Done(); the rescan closure then
\* notifies the balances (result != nil) and returns false as well.
Return(w) ==
    /\ wk[w].pc = "ret"
    /\ gate' = [b \in Blocks |->
                   IF b = ReleasedAtReturn(wk[w]) THEN 0 ELSE gate[b]]
    /\ replyHandlers' =
           Route(wk[w].id, wk[w].h = "rescan" /\ RescanHandlerRet(TRUE))
    /\ balEv' = IF wk[w].h = "rescan" /\ RescanNotifies(TRUE)
                THEN balEv + 1 ELSE balEv
    /\ balUnconfEv' = IF wk[w].h = "rescan" /\ RescanNotifies(TRUE)
                      THEN balUnconfEv + 1 ELSE balUnconfEv
    /\ Step(w, IdleWk)
    /\ UNCHANGED << storeVars, acctVars, curBlock, nextJSONID, newBlockTxJSONID,
                    spentOutpointJSONID, trackPc, rescans, ntfns, errLog,
                    sendSyncM, sendSyncClosed, notified, sendPc, newTxEv,
                    minedEv, spentSeen, firstSeen, balResult, opVars >>

(***************************************************************************)
(* The account as the node and the wallet drive it.                        *)
(***************************************************************************)
\* The steps of newBlockTxOutHandler after its validation.
HandlerStep ==
    \/ \E w \in Workers : GateAcquire(w)
    \/ \E w \in Workers : SyncAccess(w)
    \/ \E w \in Workers : InsertRecv(w)
    \/ \E w \in Workers : NotifAccess(w)
    \/ \E w \in Workers, f \in SpentFlags : NotifMined(w, f)
    \/ \E w \in Workers, f \in SpentFlags : NotifAdd(w, f)
    \/ \E w \in Workers : InsertUtxo(w)
    \/ \E w \in Workers : Return(w)

\* A tracked account: the standing subscriptions, the transactions the
\* wallet sends, and the notifications of the node.
Next ==
    \/ TrackNewTx
    \/ TrackSpent
    \/ \E t \in SelfTxIDs : SendPublish(t)
    \/ \E t \in SelfTxIDs : SendRecord(t)
    \/ \E t \in SelfTxIDs : SendDone(t)
    \/ \E w \in Workers, id \in JSONIDs, m \in SpentMsgs : DispatchSpent(w, id, m)
    \/ \E w \in Workers, id \in JSONIDs, m \in NewTxMsgs : DispatchNewTx(w, id, m)
    \/ \E w \in Workers : SyncWait(w)
    \/ \E w \in Workers : SyncRemove(w)
    \/ HandlerStep

Spec == Init /\ [][Next]_vars

\* A rescan: the replies of the node go to the closure RescanAddresses
\* registered.
RescanTips == {KnownTip(101), UnknownTip, TipError}

InitRescan == InitWith(RescanTips, {<< >>})

\* The replies to a rescan: payloads for a transaction of somebody else,
\* payloads that fail the first or the last check, and the replies that are
\* no payload, the terminal nil among them.
RescanMsgs ==
    {m \in NewTxMsgs :
        /\ m.txid \notin SelfTxIDs
        /\ m.good \in {AllNewTxChecks, AllNewTxChecks \ {"receiver"},
                       AllNewTxChecks \ {"pkscript"}}}

NextRescan ==
    \/ \E cmdOk \in BOOLEAN : RescanAddresses(cmdOk)
    \/ \E w \in Workers, id \in JSONIDs, m \in RescanMsgs, written \in BOOLEAN :
           DispatchRescan(w, id, m, written)
    \/ HandlerStep

SpecRescan == InitRescan /\ [][NextRescan]_vars

(***************************************************************************)
(* Balance queries over a store the account was loaded with.               *)
(***************************************************************************)
BalAmts == {U64(3), U64(5), Two63}
BalHeights == {-1, 0, 95}
BalTips == {KnownTip(100), KnownTip(2147483647), UnknownTip, TipError,
            TipErrorAt(100)}
BalConfirms == {0, 1, 6, 10}
\* The i-th Utxo of a store holds the i-th of these outpoints.
BalOutpoints == << << "T1", 0 >>, << "T2", 1 >>, << "T2", 0 >>, << "T1", 1 >> >>

BalStores ==
    UNION {
        {[i \in 1..n |->
             Utxo(BalOutpoints[i][1], BalOutpoints[i][2], f[i].h,
                  IF f[i].h = -1 THEN NoBlock ELSE "B1", f[i].amt, f[i].rcv)] :
           f \in [1..n -> [h : BalHeights, amt : BalAmts, rcv : AddrHashes]]} :
        n \in 0..MaxUtxos}

InitBal == InitWith(BalTips, BalStores)

balOthers == << storeVars, acctVars, curBlock, routerVars, wk, ntfns, errLog,
                syncVars, sendPc, eventVars, spentSeen, firstSeen, opVars >>

QueryBalance(confirms) ==
    /\ balResult' = [fn |-> "CalculateBalance", confirms |-> confirms,
                     addr |-> "-", value |-> CalculateBalance(confirms)]
    /\ UNCHANGED balOthers

QueryAddressBalance(pubkeyHash, confirms) ==
    /\ balResult' = [fn |-> "CalculateAddressBalance", confirms |-> confirms,
                     addr |-> pubkeyHash,
                     value |-> CalculateAddressBalance(pubkeyHash, confirms)]
    /\ UNCHANGED balOthers

NextBal ==
    \/ \E confirms \in BalConfirms : QueryBalance(confirms)
    \/ \E pubkeyHash \in AddrHashes, confirms \in BalConfirms :
           QueryAddressBalance(pubkeyHash, confirms)

SpecBal == InitBal /\ [][NextBal]_vars

(***************************************************************************)
(* Rollback of the stores after a reorganisation.                          *)
(***************************************************************************)
\* The block of the accepted chain at a height, for the heights a
\* reorganisation touches; X95 and X96 are the blocks it orphaned.
AcceptedAt(h) == IF h = 95 THEN "B95" ELSE IF h = 96 THEN "B96" ELSE NoBlock
RbPlaces == {<< -1, NoBlock >>, << 95, "B95" >>, << 95, "X95" >>,
             << 96, "B96" >>, << 96, "X96" >>}
RbHeights == {94, 95, 96, 97}
RbHashes == {"X95", "X96"}
\* The i-th output the stores know has this amount.
RbAmts == << U64(5), U64(3), U64(5) >>

\* A record in a block that is not the accepted one at its height.
Orphaned(height, blk) == height # -1 /\ blk # AcceptedAt(height)

\* tx.UtxoStore.Rollback: the Utxos at or above the height that are on the
\* orphaned branch are removed; changed tells whether any was.
UtxoStoreRollback(s, height, hash) ==
    LET kept == SelectSeq(s, LAMBDA u :
                    ~(u.Height >= height /\ Orphaned(u.Height, u.BlockHash)))
    IN  [s |-> kept, changed |-> Len(kept) # Len(s)]

\* tx.TxStore.Rollback: the same for the records of the history.
TxStoreRollback(s, height, hash) ==
    LET kept == SelectSeq(s, LAMBDA t :
                    ~(t.BlockHeight >= height
                      /\ Orphaned(t.BlockHeight, t.BlockHash)))
    IN  [s |-> kept, changed |-> Len(kept) # Len(s)]

\* What Rollback hands to a.UtxoStore.s.Rollback: its own arguments.
MutUtxoRollbackArgs_NextHeight(height, hash) == << height + 1, hash >>

UtxoRollbackArgs(height, hash) == << height, hash >>

\* What Rollback hands to a.TxStore.s.Rollback: its own arguments.
MutTxRollbackArgs_NextHeight(height, hash) == << height + 1, hash >>

TxRollbackArgs(height, hash) == << height, hash >>

\* dirty = dirty || s.Rollback(height, hash).
MutOrChanged_Assigns(d, changed) == changed

OrChanged(d, changed) == d \/ changed

rbOthers == << acctVars, curBlock, routerVars, wk, ntfns, syncVars, sendPc,
               eventVars, spentSeen, firstSeen, balResult, keyVars, lk, rq >>

\* Rollback, the UtxoStore under its lock.
RollbackUtxoStore(height, hash) ==
    /\ rb.pc = "idle"
    /\ LET args == UtxoRollbackArgs(height, hash)
           r == UtxoStoreRollback(utxoS, args[1], args[2])
       IN  /\ utxoS' = r.s
           /\ utxoDirty' = OrChanged(utxoDirty, r.changed)
           /\ rb' = [rb EXCEPT !.pc = "tx", !.height = height, !.hash = hash,
                               !.changedU = r.changed, !.utxo0 = utxoS,
                               !.tx0 = txS]
    /\ UNCHANGED << txS, txDirty, errLog, rbOthers >>

\* Rollback, the TxStore under its lock.
RollbackTxStore ==
    /\ rb.pc = "tx"
    /\ LET args == TxRollbackArgs(rb.height, rb.hash)
           r == TxStoreRollback(txS, args[1], args[2])
       IN  /\ txS' = r.s
           /\ txDirty' = OrChanged(txDirty, r.changed)
           /\ rb' = [rb EXCEPT !.pc = "write", !.changedT = r.changed]
    /\ UNCHANGED << utxoS, utxoDirty, errLog, rbOthers >>

\* Rollback, writeDirtyToDisk: a failure is logged and Rollback returns.
RollbackWrite(written) ==
    /\ rb.pc = "write"
    /\ diskWrite' = IF written THEN "ok" ELSE "failed"
    /\ errLog' = Logged(errLog, "disk", IF written THEN 0 ELSE 1)
    /\ rb' = [rb EXCEPT !.pc = "done"]
    /\ UNCHANGED << storeVars, dirty, syncedWith, curBlock, routerVars, wk,
                    ntfns, syncVars, sendPc, eventVars, spentSeen, firstSeen,
                    balResult, keyVars, lk, rq >>

\* The records of a store from the height on that are on the orphaned branch,
\* as positions in the store.
OrphanedUtxos(s, height) ==
    {i \in 1..Len(s) : s[i].Height >= height
                       /\ Orphaned(s[i].Height, s[i].BlockHash)}
OrphanedTxs(s, height) ==
    {i \in 1..Len(s) : s[i].BlockHeight >= height
                       /\ Orphaned(s[i].BlockHeight, s[i].BlockHash)}

\* After the rollback the same RecvTx is recorded again:
\* a.TxStore.Lock(); InsertRecvTx(t); dirty = true; Unlock().
ReinsertRecvTx(i) ==
    /\ rb.pc = "done"
    /\ i \in OrphanedTxs(rb.tx0, rb.height) \ rb.redoneT
    /\ txS' = InsertTx(txS, rb.tx0[i])
    /\ txDirty' = TRUE
    /\ rb' = [rb EXCEPT !.redoneT = @ \cup {i}]
    /\ UNCHANGED << utxoS, utxoDirty, errLog, rbOthers >>

\* ... and the same Utxo: a.UtxoStore.Lock(); Insert(u); dirty = true; Unlock().
ReinsertUtxo(i) ==
    /\ rb.pc = "done"
    /\ i \in OrphanedUtxos(rb.utxo0, rb.height) \ rb.redoneU
    /\ utxoS' = Insert(utxoS, rb.utxo0[i])
    /\ utxoDirty' = TRUE
    /\ rb' = [rb EXCEPT !.redoneU = @ \cup {i}]
    /\ UNCHANGED << txS, txDirty, errLog, rbOthers >>

\* The stores a sequence of new-transaction notifications leaves behind: a
\* RecvTx for each, a Utxo for each that was not reported spent.
RbNtfns ==
    UNION {[1..n -> [place : RbPlaces, spent : BOOLEAN]] : n \in 0..MaxUtxos}

RbRecvTx(f, i) ==
    RecvTx(BalOutpoints[i][1], BalOutpoints[i][2], f[i].place[1],
           f[i].place[2], RbAmts[i], "H1")
RbUtxo(f, i) ==
    Utxo(BalOutpoints[i][1], BalOutpoints[i][2], f[i].place[1],
         f[i].place[2], RbAmts[i], "H1")

RECURSIVE RbUtxosOf(_, _)
RbUtxosOf(f, i) ==
    IF i > Len(f) THEN << >>
    ELSE (IF f[i].spent THEN << >> ELSE << RbUtxo(f, i) >>) \o RbUtxosOf(f, i + 1)

InitRollback ==
    /\ \E f \in RbNtfns :
           /\ txS = [i \in 1..Len(f) |-> RbRecvTx(f, i)]
           /\ utxoS = RbUtxosOf(f, 1)
    /\ utxoDirty \in BOOLEAN
    /\ txDirty \in BOOLEAN
    /\ InitRest({KnownTip(100)})

NextRollback ==
    \/ \E height \in RbHeights, hash \in RbHashes : RollbackUtxoStore(height, hash)
    \/ RollbackTxStore
    \/ \E written \in BOOLEAN : RollbackWrite(written)
    \/ \E i \in 1..MaxUtxos : ReinsertRecvTx(i)
    \/ \E i \in 1..MaxUtxos : ReinsertUtxo(i)

SpecRollback == InitRollback /\ [][NextRollback]_vars

(***************************************************************************)
(* The address index, key import and NewAddress.                           *)
(***************************************************************************)
\* addressAccountMap.m[address] = account, under the write lock.
MutMarkedMap_FirstWins(m, address, account) ==
    IF m[address] = "none" THEN [m EXCEPT ![address] = account] ELSE m

MarkedMap(m, address, account) == [m EXCEPT ![address] = account]

\* account, ok := addressAccountMap.m[address], under the read lock.
LookupResult(m, address) ==
    IF m[address] = "none" THEN [account |-> "", err |-> "ErrNotFound"]
    ELSE [account |-> m[address], err |-> "nil"]

\* if net != a.Net() { return "", errors.New("wrong network") }.
MutWrongNetwork_NotChecked(net) == FALSE

WrongNetwork(net) == net # AccountNet

\* The record of a call and of what it returned.
Returned(fn, wif, rescan, addr, account, err, written) ==
    [n |-> callRes.n + 1, fn |-> fn, wif |-> wif, rescan |-> rescan,
     addr |-> addr, account |-> account, err |-> err, written |-> written]

indexVars == << addressAccountMap, owners >>
rescanRegs == << rescans, nextJSONID, replyHandlers >>
keyRest == << storeVars, syncedWith, curBlock, newBlockTxJSONID,
              spentOutpointJSONID, trackPc, wk, ntfns, syncVars, sendPc,
              eventVars, spentSeen, firstSeen, balResult, rb, lk >>
keyOthers == << keyRest, rq >>

\* The index after MarkAddressForAccount(address, account).
Marks(address, account) ==
    /\ addressAccountMap' = MarkedMap(addressAccountMap, address, account)
    /\ owners' = [owners EXCEPT ![address] = @ \cup {account}]

\* writeDirtyToDisk: the wallet as it is now reaches the disk, or an error
\* comes back.
WritesDirtyToDisk(written) ==
    /\ diskWrite' = IF written THEN "ok" ELSE "failed"
    /\ disk' = IF written THEN walletKeys' ELSE disk

\* A call that returns an error before it has changed anything.
Refused(fn, wif, rescan, err) ==
    /\ callRes' = Returned(fn, wif, rescan, "", "", err, "none")
    /\ UNCHANGED << indexVars, walletKeys, disk, dirty, diskWrite, errLog >>

\* MarkAddressForAccount called by any account of the process.
MarkAddressForAccount(address, account) ==
    /\ callRes.n < MaxCalls
    /\ Marks(address, account)
    /\ callRes' = Returned("MarkAddressForAccount", NoCall.wif, FALSE, address,
                           account, "nil", "none")
    /\ UNCHANGED << walletKeys, disk, mtx, dirty, diskWrite, errLog, rescanRegs,
                    keyOthers >>

\* LookupAccountByAddress.
LookupAccountByAddress(address) ==
    /\ callRes.n < MaxCalls
    /\ LET r == LookupResult(addressAccountMap, address)
       IN  callRes' = Returned("LookupAccountByAddress", NoCall.wif, FALSE,
                               address, r.account, r.err, "none")
    /\ UNCHANGED << indexVars, walletKeys, disk, mtx, dirty, diskWrite, errLog,
                    rescanRegs, keyOthers >>

\* The body of ImportWIFPrivateKey, called as fn: decode, network check,
\* import under a.mtx, dirty, write, mark.  A call that finds a.mtx held
\* does not return.
ImportsWIF(fn, wif, rescan, importOk, written) ==
    /\ callRes.n < MaxCalls
    /\ IF ~wif.ok THEN Refused(fn, wif, rescan, "decode")
       ELSE IF WrongNetwork(wif.net) THEN Refused(fn, wif, rescan, "wrong network")
       ELSE /\ mtx = "free"
            /\ IF ~importOk THEN Refused(fn, wif, rescan, "import")
               ELSE /\ walletKeys' = walletKeys \cup {wif.addr}
                    /\ dirty' = TRUE
                    /\ WritesDirtyToDisk(written)
                    /\ IF written
                       THEN /\ Marks(wif.addr, AccountName)
                            /\ callRes' = Returned(fn, wif, rescan, wif.addr,
                                                   AccountName, "nil", "ok")
                            /\ UNCHANGED errLog
                       ELSE /\ errLog' = Logged(errLog, "disk", 1)
                            /\ callRes' =
                                   Returned(fn, wif, rescan, "", "",
                                            "import failed: cannot write wallet",
                                            "failed")
                            /\ UNCHANGED indexVars
    /\ UNCHANGED mtx

ImportWIFPrivateKey(wif, importOk, written) ==
    /\ ImportsWIF("ImportWIFPrivateKey", wif, FALSE, importOk, written)
    /\ UNCHANGED << rescanRegs, keyOthers >>

\* ImportPrivKey: the import, then a rescan for the address if asked for.
ImportPrivKey(wif, rescan, importOk, written, cmdOk) ==
    /\ ImportsWIF("ImportPrivKey", wif, rescan, importOk, written)
    /\ IF callRes'.err = "nil" /\ rescan
       THEN RescanRegisters(cmdOk)
       ELSE UNCHANGED rescanRegs
    /\ UNCHANGED keyOthers

\* btcdMsgs <- mcmd: a request carrying the identifier n is on its way to
\* the node (ReqNewTxsForAddress, ReqSpentUtxoNtfn, RescanAddresses).
Requested(q, n) == [q EXCEPT !.sent = @ \cup {n}]

\* NewAddress: a.mtx is locked; an error of GetCurBlock or of
\* NextChainedAddress returns with a.mtx still locked; otherwise the new
\* address is in the wallet, the account dirty, a.mtx unlocked, the wallet
\* written (an error is logged), the address marked, notifications for it
\* requested under a.NewBlockTxJSONID, and the address returned.
NewAddress(addr, chainOk, written) ==
    /\ callRes.n < MaxCalls
    /\ mtx = "free"
    /\ IF GetCurBlock.err \/ ~chainOk
       THEN /\ mtx' = "held"
            /\ Refused("NewAddress", NoCall.wif, FALSE,
                       IF GetCurBlock.err THEN "tip" ELSE "chain")
            /\ UNCHANGED rq
       ELSE /\ addr \notin walletKeys
            /\ walletKeys' = walletKeys \cup {addr}
            /\ dirty' = TRUE
            /\ WritesDirtyToDisk(written)
            /\ errLog' = Logged(errLog, "disk", IF written THEN 0 ELSE 1)
            /\ Marks(addr, AccountName)
            /\ callRes' = Returned("NewAddress", NoCall.wif, FALSE, addr,
                                   AccountName, "nil",
                                   IF written THEN "ok" ELSE "failed")
            /\ rq' = Requested(rq, newBlockTxJSONID)
            /\ UNCHANGED mtx
    /\ UNCHANGED << rescanRegs, keyRest >>

KeyTips == {KnownTip(101), TipError}

InitKeys == InitWith(KeyTips, {<< >>})

NextKeys ==
    \/ \E address \in Addresses, account \in Accounts :
           MarkAddressForAccount(address, account)
    \/ \E address \in Addresses : LookupAccountByAddress(address)
    \/ \E wif \in WIFs, importOk \in BOOLEAN, written \in BOOLEAN :
           ImportWIFPrivateKey(wif, importOk, written)
    \/ \E wif \in WIFs, rescan \in BOOLEAN, importOk \in BOOLEAN,
          written \in BOOLEAN, cmdOk \in BOOLEAN :
           ImportPrivKey(wif, rescan, importOk, written, cmdOk)
    \/ \E addr \in Addresses, chainOk \in BOOLEAN, written \in BOOLEAN :
           NewAddress(addr, chainOk, written)

SpecKeys == InitKeys /\ [][NextKeys]_vars

(***************************************************************************)
(* The locks of an account.  Every call path is the sequence of lock       *)
(* operations its code performs, in program order; a goroutine runs one    *)
(* call at a time and the goroutines interleave at the lock operations.    *)
(* A sync.RWMutex admits one writer or any number of readers.              *)
(***************************************************************************)
Lock(l) == [op |-> "Lock", lock |-> l]
Unlock(l) == [op |-> "Unlock", lock |-> l]
RLock(l) == [op |-> "RLock", lock |-> l]
RUnlock(l) == [op |-> "RUnlock", lock |-> l]

StoreLocks == {"UtxoStore", "TxStore"}

RECURSIVE Repeat(_, _)
Repeat(ops, n) == IF n = 0 THEN << >> ELSE ops \o Repeat(ops, n - 1)

\* Rollback: the UtxoStore, then the TxStore, each released before the next.
RollbackLocks ==
    << Lock("UtxoStore"), Unlock("UtxoStore"),
       Lock("TxStore"), Unlock("TxStore") >>

\* CalculateBalance and CalculateAddressBalance past the check of the tip.
BalanceLocks == << RLock("UtxoStore"), RUnlock("UtxoStore") >>

\* ListTransactions, ListAddressTransactions and ListAllTransactions past
\* the check of the tip: a.mtx is released before the TxStore.
HistoryLocks ==
    << RLock("mtx"), RLock("TxStore"), RUnlock("mtx"), RUnlock("TxStore") >>

\* AddressUsed.
AddressUsedLocks == << RLock("TxStore"), RUnlock("TxStore") >>

\* ReqNewTxsForAddress and ReqSpentUtxoNtfn read the JSON id under a.mtx.
ReqLocks == << RLock("mtx"), RUnlock("mtx") >>

\* The handler with the TxStore still locked while the Utxo is inserted.
MutHandlerLocks_Nested(spent, unconfirmed) ==
    IF spent
    THEN << Lock("TxStore"), Unlock("TxStore") >>
    ELSE << Lock("TxStore"), Lock("UtxoStore"), Unlock("UtxoStore"),
            Unlock("TxStore") >>
         \o (IF unconfirmed THEN BalanceLocks \o BalanceLocks ELSE << >>)

\* newBlockTxOutHandler from the insertion of the RecvTx on: the TxStore;
\* if the output is not spent the UtxoStore; and for a transaction that is
\* not in a block CalculateBalance(0) and CalculateBalance(1).
HandlerLocks(spent, unconfirmed) ==
    << Lock("TxStore"), Unlock("TxStore") >>
    \o (IF spent THEN << >>
        ELSE << Lock("UtxoStore"), Unlock("UtxoStore") >>
             \o (IF unconfirmed THEN BalanceLocks \o BalanceLocks ELSE << >>))

\* Track with one active address and n Utxos in the store.
TrackLocks(n) ==
    << Lock("mtx"), Unlock("mtx"),
       Lock("replyHandlers"), Unlock("replyHandlers") >>
    \o ReqLocks
    \o << Lock("mtx"), Unlock("mtx"),
          Lock("replyHandlers"), Unlock("replyHandlers"),
          RLock("UtxoStore") >>
    \o Repeat(ReqLocks, n)
    \o << RUnlock("UtxoStore") >>

LockFns ==
    {"Rollback", "newBlockTxOutHandler", "Track", "CalculateBalance",
     "CalculateAddressBalance", "ListTransactions",
     "ListAddressTransactions", "ListAllTransactions", "AddressUsed"}

\* The lock operations of a call of fn.
LocksOf(fn, spent, unconfirmed, n) ==
    CASE fn = "Rollback" -> RollbackLocks
      [] fn = "newBlockTxOutHandler" -> HandlerLocks(spent, unconfirmed)
      [] fn = "Track" -> TrackLocks(n)
      [] fn \in {"CalculateBalance", "CalculateAddressBalance"} -> BalanceLocks
      [] fn = "AddressUsed" -> AddressUsedLocks
      [] OTHER -> HistoryLocks

lockOthers == << utxoS, utxoDirty, txS, txDirty, dirty, syncedWith, curBlock,
                 replyHandlers, nextJSONID, newBlockTxJSONID,
                 spentOutpointJSONID, trackPc, rescans, wk, ntfns, errLog,
                 sendSyncM, sendSyncClosed, sendPc, gate, notified,
                 newTxEv, minedEv, balEv, balUnconfEv, diskWrite, spentSeen,
                 firstSeen, balResult, rb, keyVars, rq >>

\* Who holds l, and how.
Writers(l) == {t \in Threads : [lock |-> l, mode |-> "w"] \in lk[t].held}
Readers(l) == {t \in Threads : [lock |-> l, mode |-> "r"] \in lk[t].held}

\* The operation goroutine t is at.
AtOp(t) == lk[t].ops[lk[t].pc]

\* Goroutine t past its operation, holding held; it returns after the last.
Advanced(t, held) ==
    IF lk[t].pc = Len(lk[t].ops)
    THEN [lk EXCEPT ![t] = NoPath]
    ELSE [lk EXCEPT ![t].pc = @ + 1, ![t].held = held]

\* A goroutine enters a call.
Calls(t, fn, spent, unconfirmed, n) ==
    /\ lk[t] = NoPath
    /\ lk' = [lk EXCEPT ![t] = [fn |-> fn,
                                ops |-> LocksOf(fn, spent, unconfirmed, n),
                                pc |-> 1, held |-> {}]]
    /\ UNCHANGED lockOthers

\* Lock returns once nobody holds the lock.
LockStep(t) ==
    /\ lk[t] # NoPath
    /\ AtOp(t).op = "Lock"
    /\ Writers(AtOp(t).lock) = {}
    /\ Readers(AtOp(t).lock) = {}
    /\ lk' = Advanced(t, lk[t].held \cup {[lock |-> AtOp(t).lock, mode |-> "w"]})
    /\ UNCHANGED lockOthers

\* RLock returns once no writer holds the lock.
RLockStep(t) ==
    /\ lk[t] # NoPath
    /\ AtOp(t).op = "RLock"
    /\ Writers(AtOp(t).lock) = {}
    /\ lk' = Advanced(t, lk[t].held \cup {[lock |-> AtOp(t).lock, mode |-> "r"]})
    /\ UNCHANGED lockOthers

UnlockStep(t) ==
    /\ lk[t] # NoPath
    /\ AtOp(t).op = "Unlock"
    /\ lk' = Advanced(t, lk[t].held \ {[lock |-> AtOp(t).lock, mode |-> "w"]})
    /\ UNCHANGED lockOthers

RUnlockStep(t) ==
    /\ lk[t] # NoPath
    /\ AtOp(t).op = "RUnlock"
    /\ lk' = Advanced(t, lk[t].held \ {[lock |-> AtOp(t).lock, mode |-> "r"]})
    /\ UNCHANGED lockOthers

InitLocks == InitWith(MainTips, {<< >>})

NextLocks ==
    \/ \E t \in Threads, fn \in LockFns, spent \in BOOLEAN,
          unconfirmed \in BOOLEAN, n \in 0..MaxUtxos :
           Calls(t, fn, spent, unconfirmed, n)
    \/ \E t \in Threads : LockStep(t)
    \/ \E t \in Threads : RLockStep(t)
    \/ \E t \in Threads : UnlockStep(t)
    \/ \E t \in Threads : RUnlockStep(t)

SpecLocks == InitLocks /\ [][NextLocks]_vars

(***************************************************************************)
(* Registration of the handlers and the requests to the node, one step per *)
(* statement that publishes an identifier, registers a handler or sends a  *)
(* request.  The node answers only requests it has received; the router    *)
(* hands a reply to the handler registered under its identifier.           *)
(***************************************************************************)
\* replyHandlers.m[n] = handler.
RegisteredAs(m, n, handler) == [m EXCEPT ![n] = handler]

\* Whether the router finds a handler under the identifier.
HasHandler(id) == id \in JSONIDs /\ replyHandlers[id] # "none"

\* What the handler kept under an identifier returns for a reply.
HandlerRet(handler, terminal) ==
    CASE handler = "rescan" -> RescanHandlerRet(~terminal)
      [] handler = "spent" ->
             SpentUtxoHandlerRet([kind |-> IF terminal THEN "nil" ELSE "map"])
      [] OTHER ->
             NewBlockTxOutHandlerRet([kind |-> IF terminal THEN "nil" ELSE "map"])

regOthers == << storeVars, acctVars, curBlock, wk, errLog, syncVars, sendPc,
                eventVars, spentSeen, firstSeen, balResult, rb, keyVars, lk >>

\* Track: n := <-NewJSONID; a.NewBlockTxJSONID = n under a.mtx.
TrackAssignsNewTx ==
    /\ trackPc = "start"
    /\ nextJSONID \in JSONIDs
    /\ newBlockTxJSONID' = nextJSONID
    /\ nextJSONID' = nextJSONID + 1
    /\ trackPc' = "registerNewTx"
    /\ UNCHANGED << replyHandlers, spentOutpointJSONID, rescans, ntfns, rq,
                    regOthers >>

\* Track: replyHandlers.m[n] = a.newBlockTxOutHandler.
TrackRegistersNewTx ==
    /\ trackPc = "registerNewTx"
    /\ replyHandlers' = RegisteredAs(replyHandlers, newBlockTxJSONID, "newtx")
    /\ trackPc' = "requestNewTx"
    /\ UNCHANGED << nextJSONID, newBlockTxJSONID, spentOutpointJSONID, rescans,
                    ntfns, rq, regOthers >>

\* Track: a.ReqNewTxsForAddress(addr.Address) for the active addresses.
TrackRequestsNewTx ==
    /\ trackPc = "requestNewTx"
    /\ rq' = Requested(rq, newBlockTxJSONID)
    /\ trackPc' = "assignSpent"
    /\ UNCHANGED << replyHandlers, nextJSONID, newBlockTxJSONID,
                    spentOutpointJSONID, rescans, ntfns, regOthers >>

\* Track: n = <-NewJSONID; a.SpentOutpointJSONID = n under a.mtx.
TrackAssignsSpent ==
    /\ trackPc = "assignSpent"
    /\ nextJSONID \in JSONIDs
    /\ spentOutpointJSONID' = nextJSONID
    /\ nextJSONID' = nextJSONID + 1
    /\ trackPc' = "registerSpent"
    /\ UNCHANGED << replyHandlers, newBlockTxJSONID, rescans, ntfns, rq,
                    regOthers >>

\* Track: replyHandlers.m[n] = a.spentUtxoHandler.
TrackRegistersSpent ==
    /\ trackPc = "registerSpent"
    /\ replyHandlers' = RegisteredAs(replyHandlers, spentOutpointJSONID, "spent")
    /\ trackPc' = "requestSpent"
    /\ UNCHANGED << nextJSONID, newBlockTxJSONID, spentOutpointJSONID, rescans,
                    ntfns, rq, regOthers >>

\* Track: a.ReqSpentUtxoNtfn(utxo) for the stored Utxos.
TrackRequestsSpent ==
    /\ trackPc = "requestSpent"
    /\ rq' = Requested(rq, spentOutpointJSONID)
    /\ trackPc' = "done"
    /\ UNCHANGED << replyHandlers, nextJSONID, newBlockTxJSONID,
                    spentOutpointJSONID, rescans, ntfns, regOthers >>

\* RescanAddresses: n := <-NewJSONID and the command; an error returns.
RescanBuilds(cmdOk) ==
    /\ rescans < MaxRescans
    /\ rq.rescanPc = "idle"
    /\ nextJSONID \in JSONIDs
    /\ rescans' = rescans + 1
    /\ nextJSONID' = nextJSONID + 1
    /\ rq' = IF cmdOk
             THEN [rq EXCEPT !.rescanPc = "register", !.rescanN = nextJSONID]
             ELSE rq
    /\ UNCHANGED << replyHandlers, newBlockTxJSONID, spentOutpointJSONID,
                    trackPc, ntfns, regOthers >>

\* RescanAddresses: replyHandlers.m[n] = the rescan closure.
RescanRegistersHandler ==
    /\ rq.rescanPc = "register"
    /\ replyHandlers' = RegisteredAs(replyHandlers, rq.rescanN, "rescan")
    /\ rq' = [rq EXCEPT !.rescanPc = "send"]
    /\ UNCHANGED << nextJSONID, newBlockTxJSONID, spentOutpointJSONID, trackPc,
                    rescans, ntfns, regOthers >>

\* RescanAddresses: btcdMsgs <- mcmd.
RescanSends ==
    /\ rq.rescanPc = "send"
    /\ rq' = Requested([rq EXCEPT !.rescanPc = "idle", !.rescanN = 0],
                       rq.rescanN)
    /\ UNCHANGED << replyHandlers, nextJSONID, newBlockTxJSONID,
                    spentOutpointJSONID, trackPc, rescans, ntfns, regOthers >>

\* A reply of the node to a request it received reaches the router: the
\* handler under its identifier takes it and stays or goes by what it
\* returns; with no handler the reply is lost.  After the terminal reply to a
\* rescan the node sends no more for that request.
DispatchReply(id, terminal) ==
    /\ ntfns < MaxNtfns
    /\ id \in rq.sent
    /\ ntfns' = ntfns + 1
    /\ IF HasHandler(id)
       THEN /\ replyHandlers' =
                   Route(id, HandlerRet(replyHandlers[id], terminal))
            /\ rq' = IF replyHandlers[id] = "rescan" /\ terminal
                     THEN [rq EXCEPT !.sent = @ \ {id}]
                     ELSE rq
       ELSE /\ rq' = [rq EXCEPT !.dropped = @ \cup {id}]
            /\ UNCHANGED replyHandlers
    /\ UNCHANGED << nextJSONID, newBlockTxJSONID, spentOutpointJSONID, trackPc,
                    rescans, regOthers >>

InitReg == InitWith(MainTips, {<< >>})

NextReg ==
    \/ TrackAssignsNewTx
    \/ TrackRegistersNewTx
    \/ TrackRequestsNewTx
    \/ TrackAssignsSpent
    \/ TrackRegistersSpent
    \/ TrackRequestsSpent
    \/ \E cmdOk \in BOOLEAN : RescanBuilds(cmdOk)
    \/ RescanRegistersHandler
    \/ RescanSends
    \/ \E addr \in Addresses, chainOk \in BOOLEAN, written \in BOOLEAN :
           NewAddress(addr, chainOk, written)
    \/ \E id \in 0..(2 + MaxRescans), terminal \in BOOLEAN :
           DispatchReply(id, terminal)

SpecReg == InitReg /\ [][NextReg]_vars

(***************************************************************************)
(* The account lock as sync.RWMutex grants it.  Lock announces the writer  *)
(* and then waits for the readers that hold the lock to leave; from the    *)
(* announcement on RLock blocks, for a goroutine that already holds the    *)
(* lock for reading too.                                                   *)
(***************************************************************************)
\* RescanActiveAddresses: a.mtx read-locked with the unlock deferred; inside
\* it ActivePaymentAddresses read-locks a.mtx again and RescanAddresses
\* registers its closure.
RescanActiveAddressesLocks ==
    << RLock("mtx"),
       RLock("mtx"), RUnlock("mtx"),
       Lock("replyHandlers"), Unlock("replyHandlers"),
       RUnlock("mtx") >>

\* NewAddress with no error, ImportWIFPrivateKey, Lock, Unlock and the rescan
\* closure after the terminal reply: a.mtx write-locked and unlocked.
WriteLocks == << Lock("mtx"), Unlock("mtx") >>

MtxWriters ==
    {"NewAddress", "ImportWIFPrivateKey", "Lock", "Unlock", "rescan closure"}

\* The lock operations of a call on the account lock.
MtxLocksOf(fn) ==
    CASE fn = "RescanActiveAddresses" -> RescanActiveAddressesLocks
      [] fn = "Track" -> TrackLocks(0)
      [] OTHER -> WriteLocks

\* The goroutines that have announced a Lock of l and wait for its readers.
Pending(l) == {t \in Threads : [lock |-> l, mode |-> "pending"] \in lk[t].held}

\* The goroutines that hold l for reading, once or twice.
ReadHolders(l) ==
    {t \in Threads : \E h \in lk[t].held : h.lock = l /\ h.mode \in {"r", "r2"}}

\* A goroutine enters a call that takes the account lock.
CallsOnAccount(t, fn) ==
    /\ lk[t] = NoPath
    /\ lk' = [lk EXCEPT ![t] = [fn |-> fn, ops |-> MtxLocksOf(fn),
                                pc |-> 1, held |-> {}]]
    /\ UNCHANGED lockOthers

\* Lock, first half: the writer is announced once no other writer is.
LockAnnounce(t) ==
    /\ lk[t] # NoPath
    /\ AtOp(t).op = "Lock"
    /\ [lock |-> AtOp(t).lock, mode |-> "pending"] \notin lk[t].held
    /\ Writers(AtOp(t).lock) = {}
    /\ Pending(AtOp(t).lock) = {}
    /\ lk' = [lk EXCEPT ![t].held =
                  @ \cup {[lock |-> AtOp(t).lock, mode |-> "pending"]}]
    /\ UNCHANGED lockOthers

\* Lock, second half: it returns once the readers have left.
LockAcquire(t) ==
    /\ lk[t] # NoPath
    /\ AtOp(t).op = "Lock"
    /\ [lock |-> AtOp(t).lock, mode |-> "pending"] \in lk[t].held
    /\ ReadHolders(AtOp(t).lock) = {}
    /\ lk' = Advanced(t, (lk[t].held
                            \ {[lock |-> AtOp(t).lock, mode |-> "pending"]})
                         \cup {[lock |-> AtOp(t).lock, mode |-> "w"]})
    /\ UNCHANGED lockOthers

\* Whether RLock of l must wait: a writer holds l or has announced itself.
RLockBlocked(l) == Writers(l) # {} \/ Pending(l) # {}

\* RLock returns unless it must wait; a second hold of the same goroutine is
\* counted apart.
RLockAcquire(t) ==
    /\ lk[t] # NoPath
    /\ AtOp(t).op = "RLock"
    /\ ~RLockBlocked(AtOp(t).lock)
    /\ lk' = Advanced(t, lk[t].held \cup
                 {[lock |-> AtOp(t).lock,
                   mode |-> IF [lock |-> AtOp(t).lock, mode |-> "r"] \in lk[t].held
                            THEN "r2" ELSE "r"]})
    /\ UNCHANGED lockOthers

\* RUnlock gives back the latest read hold of the goroutine.
RUnlockLatest(t) ==
    /\ lk[t] # NoPath
    /\ AtOp(t).op = "RUnlock"
    /\ lk' = Advanced(t, lk[t].held \
                 {[lock |-> AtOp(t).lock,
                   mode |-> IF [lock |-> AtOp(t).lock, mode |-> "r2"] \in lk[t].held
                            THEN "r2" ELSE "r"]})
    /\ UNCHANGED lockOthers

\* The lock operations of goroutine t.
MtxStep(t) ==
    \/ LockAnnounce(t)
    \/ LockAcquire(t)
    \/ RLockAcquire(t)
    \/ RUnlockLatest(t)
    \/ UnlockStep(t)

InitMtx == InitWith(MainTips, {<< >>})

NextMtx ==
    \/ \E t \in Threads,
          fn \in MtxWriters \cup {"RescanActiveAddresses", "Track"} :
           CallsOnAccount(t, fn)
    \/ \E t \in Threads : MtxStep(t)

SpecMtx == InitMtx /\ [][NextMtx]_vars

\* Every goroutine that can take a step keeps running: a goroutine the
\* scheduler could run again and again is run.
FairSpecMtx == SpecMtx /\ \A t \in Threads : SF_vars(MtxStep(t))

(***************************************************************************)
(* Properties of the balance queries (SpecBal).                            *)
(***************************************************************************)
\* The accounting rule over the integers: (tip - height + 1) >= confirms,
\* written with no intermediate value beyond the heights themselves.
RuleCounts(u, confirms, tip) ==
    \/ confirms = 0
    \/ /\ u.Height # -1
       /\ tip - u.Height >= confirms - 1

\* The exact sum, on five limbs, of the amounts of the Utxos of s the rule
\* counts and whose address hash is in hs.
RECURSIVE RuleSum(_, _, _, _, _)
RuleSum(s, i, confirms, tip, hs) ==
    IF i > Len(s) THEN U64(0) \o << 0 >>
    ELSE AddLimbs(IF RuleCounts(s[i], confirms, tip) /\ s[i].AddrHash \in hs
                  THEN s[i].Amt \o << 0 >> ELSE U64(0) \o << 0 >>,
                  RuleSum(s, i + 1, confirms, tip, hs), 1, 0)

\* The sum the rule gives for the query balResult answers.
AskedSum ==
    RuleSum(utxoS, 1, balResult.confirms, curBlock.Height,
            IF balResult.fn = "CalculateBalance" THEN AddrHashes
            ELSE {balResult.addr})

\* A query has been answered with the chain tip known.
AnsweredWithTip ==
    /\ balResult.fn # "none"
    /\ ~curBlock.err
    /\ curBlock.Height # BlockHeightUnknown

\* tip - height + 1 is an int32 for every Utxo in a block.
HeightsFit ==
    \A i \in 1..Len(utxoS) :
        utxoS[i].Height # -1 => curBlock.Height - utxoS[i].Height < 2147483647

\* Two results are the same number: the amounts here are no multiples of the
\* divisor, so results with different divisors agree only at zero.
SameNumber(sat, per, sum, unit) ==
    /\ sat \o << 0 >> = sum
    /\ per = unit \/ sum = U64(0) \o << 0 >>

\* C4 (as amended): with a known chain tip, while tip - height + 1 is an
\* int32, CalculateBalance(confirms) is the sum, modulo 2^64, of the amounts
\* of exactly the Utxos the accounting rule counts, divided by
\* SatoshiPerBitcoin, and CalculateAddressBalance that of those with the
\* given address hash.
C4_BalanceIsRuleSumOverDivisor ==
    (AnsweredWithTip /\ HeightsFit)
        => balResult.value = Float(SubSeq(AskedSum, 1, 4))

\* C4 witness: tip 100, A at height 95 with amount 5, B unconfirmed with
\* amount 3, and CalculateBalance(1) answered with 5 / SatoshiPerBitcoin.
C4_ScenarioAnswered ==
    /\ curBlock = KnownTip(100)
    /\ Len(utxoS) = 2
    /\ utxoS[1].Height = 95 /\ utxoS[1].Amt = U64(5)
    /\ utxoS[2].Height = -1 /\ utxoS[2].Amt = U64(3)
    /\ balResult.fn = "CalculateBalance"
    /\ balResult.confirms = 1
    /\ balResult.value = [sat |-> U64(5), per |-> SatoshiPerBitcoin]

\* C4 (as stated): with a known chain tip the result of a balance query is
\* the sum of the amounts of the Utxos the rule counts: 8, 5 and 0 for amounts
\* 5 and 3.
C4_BalanceIsRuleSum ==
    AnsweredWithTip
        => SameNumber(balResult.value.sat, balResult.value.per, AskedSum, 1)

\* C5 (as stated): for every store, every chain tip and every confirms >= 1,
\* CalculateBalance(confirms) <= CalculateBalance(0).
C5_ZeroConfirmsDominates ==
    \A confirms \in BalConfirms \ {0} :
        Leq64(CalculateBalance(confirms).sat, CalculateBalance(0).sat)

\* GetCurBlock gives an error or a block stamp of unknown height.
TipUnavailable == curBlock.err \/ curBlock.Height = BlockHeightUnknown

\* C18: without a chain tip every balance query answers zero, whatever
\* confirms is and whatever the UtxoStore holds, and a query leaves the
\* UtxoStore and its dirty flag as they are.
C18_ZeroWithoutTip ==
    /\ []((TipUnavailable /\ balResult.fn # "none")
              => balResult.value = Float(U64(0)))
    /\ [][UNCHANGED << utxoS, utxoDirty >>]_vars

\* C18 witness: GetCurBlock gives an error together with height 100, the
\* store holds two Utxos, and CalculateAddressBalance with confirms 0 has
\* answered zero.
C18_ZeroAnsweredOnError ==
    /\ curBlock = TipErrorAt(100)
    /\ Len(utxoS) = 2
    /\ utxoS[1].AddrHash = "H1"
    /\ balResult.fn = "CalculateAddressBalance"
    /\ balResult.addr = "H1"
    /\ balResult.confirms = 0
    /\ balResult.value = Float(U64(0))

(***************************************************************************)
(* Properties of the address index, key import and NewAddress (SpecKeys).  *)
(***************************************************************************)
\* C15 (as stated): a call of ImportWIFPrivateKey, ImportPrivKey or
\* NewAddress whose write to disk failed has returned an error.
C15_WriteFailureReturned ==
    (callRes.fn \in {"ImportWIFPrivateKey", "ImportPrivKey", "NewAddress"}
         /\ callRes.written = "failed")
        => callRes.err # "nil"

\* A call of one of the import functions returns with this step.
ImportReturns ==
    /\ callRes'.n = callRes.n + 1
    /\ callRes'.fn \in {"ImportWIFPrivateKey", "ImportPrivKey"}

\* C16: an import of a key of another network returns the wrong-network
\* error and changes neither the address index, the keys of the wallet, the
\* dirty flag of the account nor what is on disk, and registers no rescan.
C16_WrongNetworkChangesNothing ==
    [][(ImportReturns /\ callRes'.wif.ok /\ callRes'.wif.net # AccountNet) =>
           /\ callRes'.err = "wrong network"
           /\ callRes'.addr = ""
           /\ UNCHANGED << indexVars, walletKeys, dirty, disk, diskWrite,
                           rescanRegs, mtx >>]_vars

\* C16 witness: after an import that succeeded, ImportPrivKey was asked to
\* import a key of the test network and to rescan; it returned the error,
\* the index knows the first address only and no rescan is registered.
C16_RefusedAfterImport ==
    /\ callRes.fn = "ImportPrivKey"
    /\ callRes.rescan
    /\ callRes.wif = [ok |-> TRUE, net |-> "test", addr |-> "addr2"]
    /\ callRes.err = "wrong network"
    /\ walletKeys = {"addr1"}
    /\ disk = {"addr1"}
    /\ addressAccountMap = [a \in Addresses |->
                               IF a = "addr1" THEN AccountName ELSE "none"]
    /\ rescans = 0

\* A call of LookupAccountByAddress, or of MarkAddressForAccount whether
\* direct or from an import or NewAddress, happens with this step.
LookupStep(address) ==
    /\ callRes'.n = callRes.n + 1
    /\ callRes'.fn = "LookupAccountByAddress"
    /\ callRes'.addr = address
MarkStep(address, account) ==
    /\ callRes'.n = callRes.n + 1
    /\ callRes'.fn # "LookupAccountByAddress"
    /\ callRes'.err = "nil"
    /\ callRes'.addr = address
    /\ callRes'.account = account

\* What C19 says of a lookup, of removal and of marking twice:
\* LookupAccountByAddress returns ErrNotFound exactly for an address never
\* marked, and otherwise the account the index holds; an entry is never
\* removed; marking a pair the index already holds changes nothing.
IndexLooksUpAndKeeps ==
    /\ [](\A a \in Addresses : addressAccountMap[a] = "none" <=> owners[a] = {})
    /\ [][\A a \in Addresses :
              /\ LookupStep(a) =>
                     /\ (callRes'.err = "ErrNotFound") <=> (owners[a] = {})
                     /\ callRes'.err = "nil" => callRes'.account = addressAccountMap[a]
                     /\ UNCHANGED indexVars
              /\ addressAccountMap[a] # "none" => addressAccountMap'[a] # "none"
              /\ \A acct \in Accounts :
                     (MarkStep(a, acct) /\ addressAccountMap[a] = acct)
                         => UNCHANGED indexVars]_vars

\* C19 (as amended): the above, and an address maps to one account at a
\* time, the one it was marked for last: a mark for another account
\* replaces the owner.
C19_IndexLastMarkWins ==
    /\ IndexLooksUpAndKeeps
    /\ [](\A a \in Addresses : addressAccountMap[a] \in owners[a] \cup {"none"})
    /\ [][\A a \in Addresses, acct \in Accounts :
              MarkStep(a, acct) =>
                  /\ addressAccountMap'[a] = acct
                  /\ \A b \in Addresses \ {a} :
                         addressAccountMap'[b] = addressAccountMap[b]]_vars

\* C19 witness: addr1 was marked for acct2, then for acct1, and a lookup
\* has answered acct1.
C19_RemarkedAndLookedUp ==
    /\ owners["addr1"] = Accounts
    /\ addressAccountMap["addr1"] = "acct1"
    /\ callRes.fn = "LookupAccountByAddress"
    /\ callRes.addr = "addr1"
    /\ callRes.account = "acct1"
    /\ callRes.err = "nil"

\* C19 (as stated): the above, and an address is mapped to at most one
\* account in the whole life of the process.
C19_OneAccountForLife ==
    /\ IndexLooksUpAndKeeps
    /\ [](\A a \in Addresses : Cardinality(owners[a]) <= 1)

(***************************************************************************)
(* Properties of the notification handlers (Spec).                         *)
(***************************************************************************)
\* The RecvTx entries of the history for transaction t, as positions.
RecvAt(t) == {j \in 1..Len(txS) : txS[j].kind = "recv" /\ txS[j].TxID = t}
SendAt(t) == {i \in 1..Len(txS) : txS[i].kind = "send" /\ txS[i].TxID = t}

\* The handlers of worker w that are past the rendezvous for transaction t.
PastRendezvous(w, t) ==
    /\ wk[w].txid = t
    /\ wk[w].pc \in {"syncRemove", "insertRecv", "notifAccess", "notifMined",
                     "notifAdd", "insertUtxo", "ret"}

\* C1: for a transaction of this wallet, every RecvTx entry of the TxStore
\* comes after the SendTx entry; a handler is past the rendezvous only once
\* the sent history is written and the signal has fired, and a handler that
\* waits after that is not held back.
C1_SendPrecedesRecv ==
    \A t \in SelfTxIDs :
        /\ \A j \in RecvAt(t) : \E i \in SendAt(t) : i < j
        /\ \A w \in Workers : PastRendezvous(w, t) => sendPc[t] = "done"
        /\ \A w \in Workers :
               (wk[w].txid = t /\ wk[w].pc = "syncWait" /\ sendPc[t] = "done")
                   => t \in sendSyncClosed

\* C1 witness: a handler found the entry of T1, went through the rendezvous
\* and removed the entry; the history holds the SendTx, then the RecvTx.
C1_RecvRecordedAfterWait ==
    /\ Len(txS) >= 2
    /\ txS[1].kind = "send" /\ txS[1].TxID = "T1"
    /\ txS[2].kind = "recv" /\ txS[2].TxID = "T1"
    /\ sendPc["T1"] = "done"
    /\ "T1" \notin sendSyncM

\* The notifications recorded for outpoint o, by whether they were in a block.
RecvOf(o, inBlock) ==
    {j \in 1..Len(txS) :
        /\ txS[j].kind = "recv"
        /\ << txS[j].TxID, txS[j].TxOutIdx >> = o
        /\ (txS[j].BlockHeight # -1) = inBlock}

\* No handler is at work on outpoint o.
Quiet(o) == \A w \in Workers : wk[w].pc = "idle" \/ OutpointOf(wk[w]) # o

\* C3 (as stated): once an unconfirmed receipt of an outpoint, followed by its
\* confirmed reappearance, have both been processed, exactly one "new
\* transaction" event and exactly one "mined" event have been emitted for it,
\* and the outpoint is no longer in the notified set.
C3_OneNewOneMined ==
    \A o \in NtfnOutpoints :
        ( /\ firstSeen[o] = "unconfirmed"
          /\ Cardinality(RecvOf(o, FALSE)) = 1
          /\ Cardinality(RecvOf(o, TRUE)) = 1
          /\ Quiet(o) )
            => /\ newTxEv[o] = 1
               /\ minedEv[o] = 1
               /\ o \notin notified

\* The UtxoStore without the outputs reported spent.
Unspent == SelectSeq(utxoS, LAMBDA u : u.Out \notin spentSeen)

\* C6 (as stated): once the spent-output handler has processed the
\* notification for a stored outpoint, no balance counts that output.
C6_SpentNotCounted ==
    /\ \A confirms \in {0, 1} :
           CalculateBalance(confirms)
               = CalculateBalanceOf(Unspent, confirms, GetCurBlock)
    /\ \A pubkeyHash \in AddrHashes, confirms \in {0, 1} :
           CalculateAddressBalance(pubkeyHash, confirms)
               = CalculateAddressBalanceOf(Unspent, pubkeyHash, confirms,
                                           GetCurBlock)

\* C7: once Track has registered them, the new-transaction handler and the
\* spent-output handler stay registered under their ids, whatever has been
\* dispatched.
C7_StandingHandlersStay ==
    /\ trackPc \in {"spent", "done"}
           => replyHandlers[newBlockTxJSONID] = "newtx"
    /\ trackPc = "done" => replyHandlers[spentOutpointJSONID] = "spent"

\* C7 witness: each handler has been sent a reply it logs an error for, the
\* new-transaction handler a payload with a bad field, and both are still
\* registered.
C7_RegisteredAfterErrors ==
    /\ trackPc = "done"
    /\ errLog.field > 0
    /\ errLog.spent > 0
    /\ replyHandlers[newBlockTxJSONID] = "newtx"
    /\ replyHandlers[spentOutpointJSONID] = "spent"

\* A step in which the new-transaction handler is handed a payload that
\* fails one of its checks.
MalformedStep ==
    /\ ntfns' = ntfns + 1
    /\ \E w \in Workers, id \in JSONIDs, m \in MalformedNewTxMsgs :
           DispatchNewTx(w, id, m)

\* C8: a malformed new-transaction notification is dropped: the handler
\* returns in the same step, leaving the stores, their dirty flags, the
\* notified set, the ordering registry, the gate and the emitted events as
\* they were.
C8_MalformedDropped ==
    [][MalformedStep =>
           /\ UNCHANGED << storeVars, syncVars, eventVars, acctVars >>
           /\ \A w \in Workers : wk'[w].pc = "idle" \/ wk'[w] = wk[w]]_vars

\* C8 witness: only the new-transaction handler is registered, it has logged
\* a bad field after a first notification was stored, and the stores hold
\* that notification alone.
C8_DroppedAfterStore ==
    /\ trackPc = "spent"
    /\ errLog.field = 1
    /\ ntfns = 2
    /\ Len(txS) = 1
    /\ Len(utxoS) = 1
    /\ \A w \in Workers : wk[w].pc = "idle"

RecvTxOf(w) ==
    RecvTx(wk[w].txid, wk[w].idx, wk[w].height, wk[w].blk, wk[w].amt, wk[w].rcv)
UtxoOf(w) ==
    Utxo(wk[w].txid, wk[w].idx, wk[w].height, wk[w].blk, wk[w].amt, wk[w].rcv)

\* Worker w leaves position pc with this step.
Leaves(w, pc) == wk[w].pc = pc /\ wk'[w].pc # pc

\* C20: the handler of a well-formed notification appends its RecvTx once,
\* setting TxStore.dirty in the same step, and nothing else appends a RecvTx;
\* the handler returns only after that; when the spent flag is true it
\* returns without touching the UtxoStore or its dirty flag, and otherwise it
\* goes on to insert the Utxo of its outpoint, setting UtxoStore.dirty in the
\* same step.
C20_RecvAlwaysUtxoUnlessSpent ==
    [][/\ \A w \in Workers :
              /\ Leaves(w, "insertRecv") =>
                     /\ txS' = Append(txS, RecvTxOf(w))
                     /\ txDirty'
                     /\ wk'[w].pc = "notifAccess"
                     /\ UNCHANGED << utxoS, utxoDirty >>
              /\ (wk'[w].pc = "notifAccess" /\ wk[w].pc # "notifAccess")
                     => wk[w].pc = "insertRecv"
              /\ (wk'[w].pc \in {"idle", "ret"} /\ wk[w].pc \notin {"idle", "ret"})
                     => wk[w].pc \in {"notifMined", "notifAdd", "insertUtxo"}
              /\ (wk'[w].pc \in {"notifMined", "notifAdd"} /\ wk[w].pc # wk'[w].pc)
                     => wk[w].pc = "notifAccess"
              /\ \A f \in SpentFlags :
                     (NotifMined(w, f) \/ NotifAdd(w, f)) =>
                         /\ UNCHANGED << storeVars >>
                         /\ IF f = "true"
                            THEN wk'[w].pc \in {"idle", "ret"}
                            ELSE wk'[w].pc = "insertUtxo"
              /\ Leaves(w, "insertUtxo") =>
                     /\ utxoS' = Insert(utxoS, UtxoOf(w))
                     /\ Cardinality({i \in 1..Len(utxoS') :
                                        utxoS'[i].Out = OutpointOf(wk[w])}) = 1
                     /\ utxoDirty'
                     /\ UNCHANGED << txS, txDirty >>
       /\ (\A w \in Workers : ~Leaves(w, "insertRecv"))
              => \/ txS' = txS
                 \/ \E t \in SelfTxIDs : txS' = Append(txS, SendTx(t))
       /\ (\A w \in Workers : ~Leaves(w, "insertUtxo"))
              => UNCHANGED << utxoS, utxoDirty >>]_vars

\* C20 witness: a notification reported spent has been handled to the end;
\* the TxStore holds its RecvTx and is dirty, the UtxoStore is empty and
\* clean.
C20_SpentRecordedWithoutUtxo ==
    /\ Len(txS) = 1
    /\ txS[1].kind = "recv"
    /\ txDirty
    /\ utxoS = << >>
    /\ ~utxoDirty
    /\ \A w \in Workers : wk[w].pc = "idle"

(***************************************************************************)
(* The rendezvous under fair scheduling (FairSpec).                        *)
(***************************************************************************)
\* The send-recording worker and a handler that can take its next step
\* eventually take it: each runs on a goroutine of its own.
Fairness ==
    /\ \A t \in SelfTxIDs : WF_vars(SendRecord(t)) /\ WF_vars(SendDone(t))
    /\ \A w \in Workers :
           WF_vars(SyncWait(w)) /\ WF_vars(SyncRemove(w)) /\ WF_vars(InsertRecv(w))

FairSpec == Spec /\ Fairness

\* C2: a handler that waits on the completion signal of an entry eventually
\* has its RecvTx inserted.
C2_WaitEnds ==
    \A w \in Workers : (wk[w].pc = "syncWait") ~> (wk[w].pc = "notifAccess")

\* C2 witness: two handlers wait at once on the entry of T1, whose signal
\* has not fired yet.
C2_TwoWaitOnOneEntry ==
    /\ \A w \in Workers : wk[w].pc = "syncWait" /\ wk[w].txid = "T1"
    /\ "T1" \notin sendSyncClosed

\* C11: the entry of a transaction a handler waits on is eventually removed
\* from the registry; once removed it is not published again, and a handler
\* that asks for it afterwards goes on to insert its RecvTx without waiting.
C11_EntryConsumed ==
    /\ \A t \in SelfTxIDs :
           (\E w \in Workers : wk[w].pc = "syncWait" /\ wk[w].txid = t)
               ~> (t \notin sendSyncM)
    /\ [][\A t \in SelfTxIDs :
              (t \notin sendSyncM /\ sendPc[t] # "idle") => t \notin sendSyncM']_vars
    /\ [][\A w \in Workers :
              ( /\ wk[w].pc = "syncAccess"
                /\ wk[w].txid \notin sendSyncM
                /\ wk'[w].pc # "syncAccess" )
                  => wk'[w].pc = "insertRecv"]_vars

\* C11 witness: the first notification for T1 waited, removed the entry and
\* was recorded; a second one is about to ask the registry, which has no
\* entry for T1 any more.
C11_LaterFindsNoEntry ==
    /\ sendPc["T1"] = "done"
    /\ "T1" \notin sendSyncM
    /\ Len(txS) = 2
    /\ txS[2].kind = "recv" /\ txS[2].TxID = "T1"
    /\ \E w \in Workers : wk[w].pc = "syncAccess" /\ wk[w].txid = "T1"

(***************************************************************************)
(* Properties of Rollback (SpecRollback).                                  *)
(***************************************************************************)
\* C12: Rollback marks a store dirty when the store's Rollback reports a
\* change and leaves a flag that was set as it is, then has the account
\* written, and returns whether or not the write succeeded: a failed write
\* is logged and the stores stay as rolled back.
C12_RollbackMarksAndPersists ==
    [][/\ (rb.pc = "idle" /\ rb'.pc = "tx") =>
              /\ rb'.changedU = (utxoS' # utxoS)
              /\ (rb'.changedU \/ utxoDirty) => utxoDirty'
              /\ UNCHANGED << txS, txDirty >>
       /\ (rb.pc = "tx" /\ rb'.pc = "write") =>
              /\ rb'.changedT = (txS' # txS)
              /\ (rb'.changedT \/ txDirty) => txDirty'
              /\ UNCHANGED << utxoS, utxoDirty >>
       /\ (rb.pc = "write" /\ rb'.pc # "write") =>
              /\ rb'.pc = "done"
              /\ diskWrite' \in {"ok", "failed"}
              /\ errLog'.disk = errLog.disk + (IF diskWrite' = "failed" THEN 1 ELSE 0)
              /\ UNCHANGED storeVars]_vars

\* C12 witness: Rollback has returned after a write that failed; the
\* TxStore lost a record and is dirty, the UtxoStore lost nothing and its
\* flag, set before the call, is still set.
C12_ReturnedAfterFailedWrite ==
    /\ rb.pc = "done"
    /\ diskWrite = "failed"
    /\ errLog.disk = 1
    /\ rb.changedT /\ txDirty /\ Len(txS) < Len(rb.tx0)
    /\ ~rb.changedU /\ utxoDirty /\ utxoS = rb.utxo0
    /\ rb.redoneU = {} /\ rb.redoneT = {}

\* The balance scenario: tip 100, A in the orphaned block of height 95 with
\* amount 5, B unconfirmed with amount 3.
UtxoA == Utxo(BalOutpoints[1][1], BalOutpoints[1][2], 95, "X95", U64(5), "H1")
UtxoB == Utxo(BalOutpoints[2][1], BalOutpoints[2][2], -1, NoBlock, U64(3), "H1")

\* Rollback has gone over the UtxoStore of the scenario and nothing has been
\* recorded again since.
ScenarioRolledBack ==
    /\ curBlock = KnownTip(100)
    /\ rb.pc # "idle"
    /\ rb.utxo0 = << UtxoA, UtxoB >>
    /\ rb.redoneU = {}

SameContent(s, t) ==
    /\ Len(s) = Len(t)
    /\ \A i \in 1..Len(s) :
           Cardinality({j \in 1..Len(s) : s[j] = s[i]})
               = Cardinality({j \in 1..Len(t) : t[j] = s[i]})

\* Every record of the orphaned branch from the height on has been recorded
\* again after the rollback.
AllReinserted ==
    /\ rb.pc = "done"
    /\ rb.redoneU = OrphanedUtxos(rb.utxo0, rb.height)
    /\ rb.redoneT = OrphanedTxs(rb.tx0, rb.height)

RescanStep(w, id, m, written) ==
    /\ ntfns' = ntfns + 1
    /\ DispatchRescan(w, id, m, written)

\* The closure returns after its new-transaction handler has applied a result.
AppliedStep(w) == wk[w].h = "rescan" /\ Return(w)

\* The balances are notified once, the handlers and the account are left alone.
NotifiesAndStays ==
    /\ balEv' = balEv + 1
    /\ balUnconfEv' = balUnconfEv + 1
    /\ UNCHANGED << replyHandlers, acctVars >>

\* The closure is removed, no balance is notified, and the account is synced
\* with the chain tip, marked dirty and written if GetCurBlock gave a tip.
SyncsAndLeaves(id, written) ==
    /\ replyHandlers'[id] = "none"
    /\ UNCHANGED << balEv, balUnconfEv, wk >>
    /\ IF GetCurBlock.err
       THEN UNCHANGED acctVars
       ELSE /\ syncedWith' = GetCurBlock.Height
            /\ dirty'
            /\ diskWrite' = IF written THEN "ok" ELSE "failed"

\* The new-transaction handler goes on with the result; nothing else moves yet.
HandlerTakesOver(w) ==
    /\ wk'[w].pc \in {"gate", "syncAccess"}
    /\ UNCHANGED << replyHandlers, acctVars, balEv >>

\* C9 (as amended): a result that is not nil goes to the new-transaction
\* handler, after which the closure notifies the balances and stays
\* registered; the nil result notifies no balance, sets the synced-with stamp
\* to the chain tip, marks the account dirty and writes it when GetCurBlock
\* gives no error, and removes the closure.
C9_RescanClosure ==
    [][/\ \A w \in Workers, id \in JSONIDs, m \in RescanMsgs, written \in BOOLEAN :
              RescanStep(w, id, m, written) =>
                  IF ~ResultNonNil(m) THEN SyncsAndLeaves(id, written)
                  ELSE IF ~NewTxAccepted(m) THEN NotifiesAndStays
                  ELSE HandlerTakesOver(w)
       /\ \A w \in Workers : AppliedStep(w) => NotifiesAndStays]_vars

\* C9 witness: a rescan has notified the balances for a result, then got the
\* nil result: the stamp is the tip, the account dirty and written, and no
\* closure is registered any more.
C9_RescanCompleted ==
    /\ rescans > 0
    /\ balEv > 0
    /\ syncedWith = 101
    /\ dirty
    /\ diskWrite = "ok"
    /\ \A id \in JSONIDs : replyHandlers[id] = "none"

\* C9 (as stated): the balances are recomputed and notified upstream on the
\* terminal result and on no other; that result also sets the synced-with
\* stamp to the chain tip, marks the account dirty and removes the closure,
\* which stays registered after any other result.
C9_TerminalAloneNotifies ==
    [][/\ \A w \in Workers, id \in JSONIDs, m \in RescanMsgs, written \in BOOLEAN :
              RescanStep(w, id, m, written) =>
                  IF ~ResultNonNil(m)
                  THEN /\ balEv' = balEv + 1
                       /\ syncedWith' = GetCurBlock.Height
                       /\ dirty'
                       /\ replyHandlers'[id] = "none"
                  ELSE /\ balEv' = balEv
                       /\ UNCHANGED replyHandlers
       /\ \A w \in Workers :
              AppliedStep(w) => (balEv' = balEv /\ UNCHANGED replyHandlers)]_vars


(***************************************************************************)
(* Properties of the locks (SpecLocks).                                    *)
(***************************************************************************)
\* Goroutine t holds store lock l, for reading or for writing.
HoldsStore(t, l) == \E h \in lk[t].held : h.lock = l

\* Goroutine t is at an operation that acquires l.
Acquiring(t, l) ==
    /\ lk[t] # NoPath
    /\ AtOp(t).op \in {"Lock", "RLock"}
    /\ AtOp(t).lock = l

\* C17: no goroutine in Rollback, the new-transaction handler, Track, a
\* balance query or a history query holds the UtxoStore lock and the TxStore
\* lock at the same time, and none asks for one store lock while it holds
\* the other, so no cycle of goroutines waiting for each other's store lock
\* can form.
C17_StoreLocksNeverNested ==
    \A t \in Threads : \A l \in StoreLocks : \A m \in StoreLocks \ {l} :
        HoldsStore(t, l) => ~HoldsStore(t, m) /\ ~Acquiring(t, m)

\* C17 witness: Rollback has released the UtxoStore and holds the TxStore
\* while the handler of another goroutine holds the UtxoStore.
C17_StoresHeldByTwoCalls ==
    \E t \in Threads, u \in Threads :
        /\ t # u
        /\ lk[t].fn = "Rollback"
        /\ [lock |-> "TxStore", mode |-> "w"] \in lk[t].held
        /\ lk[u].fn = "newBlockTxOutHandler"
        /\ [lock |-> "UtxoStore", mode |-> "w"] \in lk[u].held


(***************************************************************************)
(* The per-block gate over the whole run of the handler (Spec).            *)
(***************************************************************************)
\* The positions of newBlockTxOutHandler from the creation of the RecvTx to
\* its return.
AfterGate ==
    {"syncAccess", "syncWait", "syncRemove", "insertRecv", "notifAccess",
     "notifMined", "notifAdd", "insertUtxo", "ret"}

\* Worker w runs the handler for a notification of a transaction in a block.
RunsConfirmed(w) == wk[w].pc # "idle" /\ wk[w].height # -1
RunsUnconfirmed(w) == wk[w].pc # "idle" /\ wk[w].height = -1

\* C21: for a confirmed notification the handler holds the slot of its block
\* from before the RecvTx is inserted, through the TxStore insertion, the
\* events and the UtxoStore insertion, until it returns; the slot is taken
\* only at the gate, given back only by the return of its holder, and every
\* return of a confirmed handler gives it back; a handler for an unconfirmed
\* notification holds no slot and neither takes nor gives back one.
C21_SlotHeldFromGateToReturn ==
    /\ [](\A w \in Workers :
            /\ RunsConfirmed(w) /\ wk[w].pc \in AfterGate
                   => wk[w].wg = wk[w].blk /\ gate[wk[w].blk] = w
            /\ RunsUnconfirmed(w)
                   => wk[w].wg = NoBlock /\ \A b \in Blocks : gate[b] # w)
    /\ [][\A w \in Workers :
            /\ \A b \in Blocks :
                   /\ gate[b] # w /\ gate'[b] = w
                          => wk[w].pc = "gate" /\ wk[w].blk = b
                             /\ wk[w].height # -1 /\ wk'[w].pc = "syncAccess"
                   /\ gate[b] = w /\ gate'[b] # w
                          => wk[w].pc = "ret" /\ wk'[w].pc = "idle"
                             /\ gate'[b] = 0
            /\ RunsConfirmed(w) /\ wk[w].pc \in AfterGate /\ wk'[w].pc = "idle"
                   => wk[w].pc = "ret" /\ gate'[wk[w].blk] = 0
            /\ RunsUnconfirmed(w) /\ wk'[w] # wk[w] => gate' = gate]_vars

\* C21 witness: a confirmed handler has inserted its RecvTx and its Utxo and
\* is about to return, still holding the slot of its block.
C21_HoldsSlotAfterUtxo ==
    \E w \in Workers :
        /\ wk[w].pc = "ret"
        /\ wk[w].height # -1
        /\ gate[wk[w].blk] = w
        /\ \E i \in 1..Len(utxoS) : utxoS[i].Out = OutpointOf(wk[w])
                                    /\ utxoS[i].Height = wk[w].height


(***************************************************************************)
(* The account lock between the calls of a user (SpecKeys).                *)
(***************************************************************************)
\* C22: every operation on the account has released a.mtx when it returns,
\* on its error paths too, so once a call has returned (NewAddress refused
\* for want of the chain tip or of a next chained address included) the lock
\* is free for the next operation.
C22_AccountLockFreeAfterReturn == mtx = "free"


(***************************************************************************)
(* The mined event (Spec).                                                 *)
(***************************************************************************)
\* C23: a mined event is emitted only by a handler whose notification has a
\* block height other than -1: whatever notifications came before for the
\* outpoint, no unconfirmed record produces a mined event.
C23_MinedOnlyWhenInBlock ==
    [][\A w \in Workers :
          (/\ wk[w].pc = "notifMined"
           /\ wk'[w] # wk[w]
           /\ minedEv'[OutpointOf(wk[w])] > minedEv[OutpointOf(wk[w])])
              => wk[w].height # -1]_vars


(***************************************************************************)
(* Requests and registrations (SpecReg).                                   *)
(***************************************************************************)
\* C24: a handler is registered under an identifier before any request that
\* carries the identifier is sent to the node, so every request the node has
\* received has its handler and no reply reaches the router while no handler
\* is registered for its identifier.
C24_RegisteredBeforeRequested ==
    /\ \A id \in rq.sent : HasHandler(id)
    /\ rq.dropped = {}


(***************************************************************************)
(* RescanActiveAddresses and the writers of the account lock (FairSpecMtx).*)
(***************************************************************************)
\* C25: a call of RescanActiveAddresses returns in every interleaving with
\* the operations that write-lock the account, the second read lock it takes
\* on a.mtx notwithstanding.
C25_RescanActiveAddressesReturns ==
    \A t \in Threads :
        (lk[t].fn = "RescanActiveAddresses") ~> (lk[t] = NoPath)

====
